---- MODULE Spec2Model ----
(***************************************************************************)
(* Model of the salon dashboard's normalization and aggregation pipeline   *)
(* (src/new.py).  Text is modelled as sequences of one-character strings,  *)
(* so that formatting, stripping, matching and parsing are computed        *)
(* character by character, the way the Python code computes them.          *)
(*                                                                         *)
(* The module holds several specifications over one set of variables, one  *)
(* per component; each leaves the other components' variables idle.        *)
(*   SpecFmt    the currency formatter format_indian_money                 *)
(*   SpecNorm   the schema normalizer load_mtd_salon_data                  *)
(*   SpecMonth  the month-label normalization of the outlet comparison     *)
(*   SpecTab5   the salon performance tab: loader, chart, growth, totals   *)
(*   SpecDash   the overview, comparison, service and growth tabs          *)
(*   SpecBreakdown the category breakdown of the service tab               *)
(*   SpecSession the cached load and the views of a session                *)
(*   SpecGrowth the growth computations of the tabs side by side           *)
(*   SpecEvents the event analysis of tab 6 and of src/service.py          *)
(***************************************************************************)
EXTENDS Integers, Sequences, FiniteSets, TLC

VARIABLES
    amount,        \* format_indian_money: the amount argument (an integer or NaN)
    format_type,   \* format_indian_money: the format_type argument
    formatted,     \* format_indian_money: the returned text, NotCalled before the call
    raw_table,     \* load_mtd_salon_data: the table of the CSV file at file_path
    loaded,        \* load_mtd_salon_data: the returned table and the caught exception
    month_labels,  \* tab2: the Month column of outlet_yearly after the groupby
    month_normal,  \* tab2: the Month column after replace(month_mapping)
    mtd_files,       \* tab5: the table of the file of every year, MISSING without file
    available_files, \* tab5: the years of available_files, in order
    selected_years,  \* tab5: the years of the multiselect, in selection order
    selected_month,  \* tab5: the month of the selectbox
    all_salon_data,  \* tab5: the (year, data) entries of the dictionary, in order
    merged_data,     \* tab5: the merged table
    st_messages,     \* tab5: the st.warning / st.info calls made so far
    pc,              \* tab5: the position in the script of the tab
    fig,             \* tab5: the traces and annotations of the bar chart
    display_data,    \* tab5: the formatted year columns of the data table
    growth_cols,     \* tab5: the growth columns added to merged_data and display_data
    totals,          \* tab5: the (year, total) entries of the totals dictionary
    growth_stats,    \* tab5: the entries of the growth_stats list
    metrics,         \* tab5: the st.metric calls made so far
    raised,          \* tab5: the exception that ended the script, "none" without
    sales_data,      \* tabs 1, 2, 4: the rows of the processed sales table
    service_data,    \* tab 3: the rows of the processed service table
    view,            \* tabs 1-4: the tab whose script is run, then "done" or "raised"
    tab1,            \* tab 1: the selections and the tables and metrics computed
    tab2,            \* tab 2: the same for the outlet comparison
    tab3,            \* tab 3: the same for the service analysis
    tab4,            \* tab 4: the same for the growth analysis
    dash_raised,     \* tabs 1-4: the exception that ended the script, "none" without
    category_data,   \* tab 3: the rows of the category breakdown file
    breakdown,       \* tab 3: the selection and tables of the category breakdown
    s3_store,        \* load: the processed sales file, the raw tables, the modification count
    load_cache,      \* load: the entry of load_data in the cache of st.cache_data
    script_load,     \* load: the table the last run got, and the store at that time
    growth_pair,     \* growth: the sales of a base and a compare period
    growth_out,      \* growth: what each growth computation makes of the pair
    event_in,        \* events: the program and the uploaded sales and leaves tables
    event_out        \* events: the selections and the rows analysed for the event

fmtVars == <<amount, format_type, formatted>>

normVars == <<raw_table, loaded>>

monthVars == <<month_labels, month_normal>>

tab5Vars ==
    <<mtd_files, available_files, selected_years, selected_month,
      all_salon_data, merged_data, st_messages, pc,
      fig, display_data, growth_cols, totals, growth_stats, metrics, raised>>

tab5OutVars ==
    <<fig, display_data, growth_cols, totals, growth_stats, metrics, raised>>

dashVars ==
    <<sales_data, service_data, view, tab1, tab2, tab3, tab4, dash_raised>>

breakdownVars == <<category_data, breakdown>>

cacheVars == <<s3_store, load_cache, script_load>>

growthVars == <<growth_pair, growth_out>>

eventVars == <<event_in, event_out>>

auxVars == <<breakdownVars, cacheVars, growthVars, eventVars>>

vars == <<fmtVars, normVars, monthVars, tab5Vars, dashVars, auxVars>>

-----------------------------------------------------------------------------
(* Generic helpers on character sequences.                                 *)

\* A numeric argument: a number, or the missing value NaN / None (pd.isna).
Num(v) == [isna |-> FALSE, val |-> v]
NaN == [isna |-> TRUE, val |-> 0]
isna(x) == x.isna
NotCalled == <<"#not-called">>
ValueError == <<"#ValueError">>

\* The rupee sign is one character of the text.
RUPEE == "Rs"

DigitChars == <<"0", "1", "2", "3", "4", "5", "6", "7", "8", "9">>

IsDigit(c) == \E d \in 1..10 : DigitChars[d] = c

DigitValue(c) == (CHOOSE d \in 1..10 : DigitChars[d] = c) - 1

Max(a, b) == IF a >= b THEN a ELSE b

RECURSIVE NatDigits(_)
NatDigits(n) ==
    IF n < 10 THEN <<DigitChars[n + 1]>>
    ELSE NatDigits(n \div 10) \o <<DigitChars[(n % 10) + 1]>>

\* str(int(...)) of Python: decimal digits, a leading "-" for negatives.
PyStrInt(n) == IF n < 0 THEN <<"-">> \o NatDigits(-n) ELSE NatDigits(n)

\* s.startswith(c) for one character c.
StartsWith(s, c) == Len(s) > 0 /\ s[1] = c

-----------------------------------------------------------------------------
(* format_indian_money, src/new.py lines 11-40.                            *)

\* Mutant of FormatRestLoop: the pair slice is rest[i-1:i], one digit short.
RECURSIVE FormatRestLoop_shortSlice(_, _, _)
FormatRestLoop_shortSlice(rest, i, acc) ==
    IF i < 0 THEN acc
    ELSE IF i = 0
         THEN FormatRestLoop_shortSlice(rest, i - 2, <<rest[1]>> \o acc)
         ELSE FormatRestLoop_shortSlice(rest, i - 2,
                  <<",">> \o SubSeq(rest, Max(i - 1, 0) + 1, i) \o acc)

\* The loop "for i in range(len(rest)-1, -1, -2)" with 0-based index i;
\* acc is formatted_rest.
RECURSIVE FormatRestLoop(_, _, _)
FormatRestLoop(rest, i, acc) ==
    IF i < 0 THEN acc
    ELSE IF i = 0
         THEN FormatRestLoop(rest, i - 2, <<rest[1]>> \o acc)
         ELSE FormatRestLoop(rest, i - 2,
                  <<",">> \o SubSeq(rest, Max(i - 1, 0) + 1, i + 1) \o acc)

\* Mutant of format_with_indian_commas: the leftmost comma is not removed.
format_with_indian_commas_keepComma(num) ==
    IF isna(num) THEN ValueError
    ELSE
    LET s == PyStrInt(num.val) IN
    IF Len(s) > 3
    THEN LET last3 == SubSeq(s, Len(s) - 2, Len(s))
             rest == SubSeq(s, 1, Len(s) - 3)
             formatted_rest == FormatRestLoop(rest, Len(rest) - 1, <<>>)
         IN  IF formatted_rest # <<>>
             THEN formatted_rest \o <<",">> \o last3
             ELSE last3
    ELSE s

\* int(round(num)) of a NaN raises ValueError.
format_with_indian_commas(num) ==
    IF isna(num) THEN ValueError
    ELSE
    LET s == PyStrInt(num.val) IN
    IF Len(s) > 3
    THEN LET last3 == SubSeq(s, Len(s) - 2, Len(s))
             rest == SubSeq(s, 1, Len(s) - 3)
             formatted_rest == FormatRestLoop(rest, Len(rest) - 1, <<>>)
             result == IF formatted_rest # <<>>
                       THEN formatted_rest \o <<",">> \o last3
                       ELSE last3
         IN  IF StartsWith(result, ",") THEN Tail(result) ELSE result
    ELSE s

\* Mutant of format_indian_money: the guard tests amount == 0 only.
format_indian_money_noNaNGuard(amt, ftype) ==
    IF (~isna(amt)) /\ amt.val = 0 THEN <<RUPEE, "0">>
    ELSE LET formatted_amount == format_with_indian_commas(amt) IN
         IF formatted_amount = ValueError THEN ValueError
         ELSE <<RUPEE>> \o formatted_amount

format_indian_money(amt, ftype) ==
    IF isna(amt) \/ amt.val = 0 THEN <<RUPEE, "0">>
    ELSE LET formatted_amount == format_with_indian_commas(amt) IN
         IF formatted_amount = ValueError THEN ValueError
         ELSE <<RUPEE>> \o formatted_amount

-----------------------------------------------------------------------------
(* Inputs of the formatter: whole amounts of 1 to 10 digits, positive and  *)
(* negative, and NaN.  On a whole amount int(round(num)) is the amount.    *)

MaxSmall == 1200
MaxExp == 7
MaxLead == 12

RECURSIVE Pow10(_)
Pow10(k) == IF k = 0 THEN 1 ELSE 10 * Pow10(k - 1)

LargeAmounts ==
    {a * Pow10(k) + b : a \in 1..MaxLead, k \in 3..MaxExp, b \in {0, 7, 45, 999}}

\* The amounts of the documented examples.
ExampleAmounts == {1000, 1234567, 250000}

AmountValues ==
    (0..MaxSmall) \cup LargeAmounts \cup ExampleAmounts
    \cup {-n : n \in (1..MaxSmall)} \cup {-n : n \in LargeAmounts}

Amounts == {Num(v) : v \in AmountValues} \cup {NaN}

FormatTypes == {"full", "lakhs"}


\* One call format_indian_money(amount, format_type).
Format ==
    /\ formatted = NotCalled
    /\ formatted' = format_indian_money(amount, format_type)
    /\ UNCHANGED <<amount, format_type, normVars, monthVars, tab5Vars, dashVars, auxVars>>

-----------------------------------------------------------------------------
(* Claims about the currency formatter, verified under SpecFmt.             *)

\* Reading a formatted text back: drop the commas, read the digits.
StripCommas(s) == SelectSeq(s, LAMBDA c : c # ",")

AllDigits(s) == \A k \in 1..Len(s) : IsDigit(s[k])

RECURSIVE ParseNat(_)
ParseNat(s) ==
    IF Len(s) = 0 THEN 0
    ELSE 10 * ParseNat(SubSeq(s, 1, Len(s) - 1)) + DigitValue(s[Len(s)])

\* The comma-separated groups of a text, left to right.
RECURSIVE SplitCommas(_, _, _)
SplitCommas(s, k, cur) ==
    IF k > Len(s) THEN <<cur>>
    ELSE IF s[k] = "," THEN <<cur>> \o SplitCommas(s, k + 1, <<>>)
         ELSE SplitCommas(s, k + 1, Append(cur, s[k]))

Groups(s) == SplitCommas(s, 1, <<>>)

FmtCalled == formatted # NotCalled

\* C1: for every non-negative integer n, removing the leading currency symbol
\* and every comma from format_indian_money(n) and parsing the rest as an
\* integer gives n back.
C1_RoundTrip ==
    (FmtCalled /\ ~isna(amount) /\ amount.val >= 0) =>
        /\ formatted # ValueError
        /\ StartsWith(formatted, RUPEE)
        /\ LET digits == StripCommas(Tail(formatted)) IN
              /\ Len(digits) > 0
              /\ AllDigits(digits)
              /\ ParseNat(digits) = amount.val

C1_Witness ==
    FmtCalled /\ ~isna(amount) /\ amount.val = 1234567 /\ Len(formatted) = 10

\* C2: for every positive integer n the text after the currency symbol has
\* no comma when n has at most 3 digits; otherwise it is comma-joined groups
\* of digits, the last of exactly 3 digits, every group between the first
\* and the last of exactly 2, the first of 1 or 2, and it never starts with
\* a comma (1234567 gives 12,34,567 and 1000 gives 1,000).
C2_Grouping ==
    (FmtCalled /\ ~isna(amount) /\ amount.val > 0) =>
        /\ StartsWith(formatted, RUPEE)
        /\ LET text == Tail(formatted)
               g == Groups(text)
               n == Len(g)
           IN  /\ ~StartsWith(text, ",")
               /\ \A k \in 1..n : AllDigits(g[k])
               /\ (amount.val < 1000) => (n = 1 /\ text = NatDigits(amount.val))
               /\ (amount.val >= 1000) =>
                     /\ n >= 2
                     /\ Len(g[n]) = 3
                     /\ \A k \in 2..(n - 1) : Len(g[k]) = 2
                     /\ Len(g[1]) \in {1, 2}
               /\ (amount.val = 1234567) =>
                     text = <<"1", "2", ",", "3", "4", ",", "5", "6", "7">>
               /\ (amount.val = 1000) => text = <<"1", ",", "0", "0", "0">>

\* A seven-digit amount, whose remaining digits split evenly into pairs.
C2_Witness ==
    /\ FmtCalled /\ ~isna(amount) /\ amount.val >= 1000000
    /\ Len(Groups(Tail(formatted))) = 3
    /\ Len(Groups(Tail(formatted))[1]) = 2

\* C3: format_indian_money returns exactly the zero token when the amount is
\* 0 or is not-a-number/missing, for every format_type, and never raises
\* for such input.
C3_ZeroToken ==
    (FmtCalled /\ (isna(amount) \/ amount.val = 0)) => formatted = <<RUPEE, "0">>

C3_Witness ==
    FmtCalled /\ isna(amount) /\ format_type = "lakhs" /\ formatted = <<RUPEE, "0">>

\* C4: called with the alternate format type 'lakhs' on a non-zero amount,
\* the formatter expresses the amount divided by 100,000 and carries a unit
\* suffix, so the result differs from the full-mode result for that amount.
C4_LakhsMode ==
    (FmtCalled /\ format_type = "lakhs" /\ ~isna(amount) /\ amount.val # 0) =>
        /\ formatted # format_indian_money(amount, "full")
        /\ ~IsDigit(formatted[Len(formatted)])

\* C27: for every negative integer amount, format_indian_money returns the
\* currency symbol, a minus sign, and then exactly the grouped digits that
\* it returns for the absolute value; no comma directly follows the minus
\* sign.
C27_NegativeAmounts ==
    (FmtCalled /\ ~isna(amount) /\ amount.val < 0) =>
        /\ formatted =
               <<RUPEE, "-">> \o Tail(format_indian_money(Num(-amount.val), format_type))
        /\ \A k \in 1..(Len(formatted) - 1) :
               formatted[k] = "-" => formatted[k + 1] # ","

\* The part of C27 that the code keeps: without its commas the text of a
\* negative amount is the currency symbol, the minus sign and the digits.
C27_NegativeDigits ==
    (FmtCalled /\ ~isna(amount) /\ amount.val < 0) =>
        StripCommas(formatted) = <<RUPEE, "-">> \o NatDigits(-amount.val)

-----------------------------------------------------------------------------
(* Text helpers used by the loaders: Python str.strip, str.upper,          *)
(* str.lower, the "in" substring test, str.replace and the regex ^\d+$.    *)

LowerChars == <<"a", "b", "c", "d", "e", "f", "g", "h", "i", "j", "k", "l", "m", "n", "o", "p", "q", "r", "s", "t", "u", "v", "w", "x", "y", "z">>

UpperChars == <<"A", "B", "C", "D", "E", "F", "G", "H", "I", "J", "K", "L", "M", "N", "O", "P", "Q", "R", "S", "T", "U", "V", "W", "X", "Y", "Z">>

IsSpace(c) == c = " "

upper_char(c) ==
    IF \E k \in 1..26 : LowerChars[k] = c
    THEN UpperChars[CHOOSE k \in 1..26 : LowerChars[k] = c]
    ELSE c

lower_char(c) ==
    IF \E k \in 1..26 : UpperChars[k] = c
    THEN LowerChars[CHOOSE k \in 1..26 : UpperChars[k] = c]
    ELSE c

upper(s) == [k \in 1..Len(s) |-> upper_char(s[k])]

lower(s) == [k \in 1..Len(s) |-> lower_char(s[k])]

RECURSIVE lstrip(_)
lstrip(s) == IF Len(s) > 0 /\ IsSpace(s[1]) THEN lstrip(Tail(s)) ELSE s

RECURSIVE rstrip(_)
rstrip(s) ==
    IF Len(s) > 0 /\ IsSpace(s[Len(s)]) THEN rstrip(SubSeq(s, 1, Len(s) - 1)) ELSE s

strip(s) == rstrip(lstrip(s))

\* sub in s
contains(s, sub) ==
    \E k \in 1..(Len(s) - Len(sub) + 1) : SubSeq(s, k, k + Len(sub) - 1) = sub

\* s.replace(c, '') for one character c.
remove_char(s, c) == SelectSeq(s, LAMBDA x : x # c)

\* Series.str.match(r'^\d+$')
match_digits(s) == Len(s) > 0 /\ \A k \in 1..Len(s) : IsDigit(s[k])

\* Text that the CSV reader and pd.to_numeric read as an integer.
IsIntText(s) ==
    IF StartsWith(s, "-") THEN match_digits(Tail(s)) ELSE match_digits(s)

RECURSIVE DigitsToNat(_)
DigitsToNat(s) ==
    IF Len(s) = 0 THEN 0
    ELSE 10 * DigitsToNat(SubSeq(s, 1, Len(s) - 1)) + DigitValue(s[Len(s)])

IntOfText(s) == IF StartsWith(s, "-") THEN -DigitsToNat(Tail(s)) ELSE DigitsToNat(s)

-----------------------------------------------------------------------------
(* Column names and cells of an MTD file.                                  *)

SALONS == <<"S", "A", "L", "O", "N", "S">>
SALON == <<"S", "A", "L", "O", "N">>
S_NO == <<"S", ".", "N", "O">>
UNNAMED_0 == <<"U", "n", "n", "a", "m", "e", "d", ":", " ", "0">>
TOTAL_LOWER == <<"t", "o", "t", "a", "l">>
BRAND == <<"B", "R", "A", "N", "D">>
SALON_NAME == <<"S", "a", "l", "o", "n", " ", "N", "a", "m", "e">>
SALONS_PADDED == <<" ", "S", "A", "L", "O", "N", "S", " ">>
OUTLET == <<"O", "U", "T", "L", "E", "T">>

JANUARY == <<"J", "a", "n", "u", "a", "r", "y">>
FEBRUARY == <<"F", "e", "b", "r", "u", "a", "r", "y">>
MARCH == <<"M", "a", "r", "c", "h">>
APRIL == <<"A", "p", "r", "i", "l">>
MAY == <<"M", "a", "y">>
JUNE == <<"J", "u", "n", "e">>
JULY == <<"J", "u", "l", "y">>
AUGUST == <<"A", "u", "g", "u", "s", "t">>
SEPTEMBER == <<"S", "e", "p", "t", "e", "m", "b", "e", "r">>
OCTOBER == <<"O", "c", "t", "o", "b", "e", "r">>
NOVEMBER == <<"N", "o", "v", "e", "m", "b", "e", "r">>
DECEMBER == <<"D", "e", "c", "e", "m", "b", "e", "r">>

\* The month names of the list at new.py:1501-1503, in its order.
MonthNames == <<JANUARY, FEBRUARY, MARCH, APRIL, MAY, JUNE, JULY, AUGUST, SEPTEMBER, OCTOBER, NOVEMBER, DECEMBER>>

\* A cell the CSV reader reads as missing (NaN).
NULL == <<"#NaN">>

NAN_TEXT == <<"n", "a", "n">>

\* pd.read_csv infers a column's dtype from all of its cells: whole numbers
\* give int64, whole numbers with missing cells give float64, anything else
\* leaves the cells as text (object).
InferDtype(cells) ==
    IF Len(cells) = 0 THEN "object"
    ELSE IF \A k \in 1..Len(cells) : cells[k] = NULL \/ IsIntText(cells[k])
         THEN IF \E k \in 1..Len(cells) : cells[k] = NULL THEN "float64" ELSE "int64"
         ELSE "object"

\* df = pd.read_csv(file_path): every row keeps its index label.
read_csv(raw) ==
    [columns |-> raw.header,
     dtypes  |-> [j \in 1..Len(raw.header) |->
                     InferDtype([i \in 1..Len(raw.rows) |-> raw.rows[i][j]])],
     rows    |-> [i \in 1..Len(raw.rows) |-> [idx |-> i, cells |-> raw.rows[i]]]]

\* Series.astype(str) of one cell of a column of the given dtype.
astype_str(cell, dtype) ==
    IF cell = NULL THEN NAN_TEXT
    ELSE IF dtype = "int64" THEN PyStrInt(IntOfText(cell))
    ELSE IF dtype = "float64" THEN PyStrInt(IntOfText(cell)) \o <<".", "0">>
    ELSE cell

\* pd.to_numeric(text, errors='coerce')
to_numeric_text(s) == IF IsIntText(s) THEN Num(IntOfText(s)) ELSE NaN

\* pd.to_numeric(cell, errors='coerce') for a cell of a column of the dtype.
to_numeric(cell, dtype) ==
    IF cell = NULL THEN NaN
    ELSE IF dtype = "object" THEN to_numeric_text(cell)
    ELSE Num(IntOfText(cell))

HasColumn(df, name) == \E j \in 1..Len(df.columns) : df.columns[j] = name

ColIndex(df, name) ==
    CHOOSE j \in 1..Len(df.columns) :
        /\ df.columns[j] = name
        /\ \A i \in 1..(j - 1) : df.columns[i] # name

\* df.columns = [str(col).strip() for col in df.columns]
strip_columns(df) ==
    [df EXCEPT !.columns = [j \in 1..Len(df.columns) |-> strip(df.columns[j])]]

\* df.iloc[:, 1:]
drop_first_column(df) ==
    [columns |-> Tail(df.columns),
     dtypes  |-> Tail(df.dtypes),
     rows    |-> [i \in 1..Len(df.rows) |->
                     [df.rows[i] EXCEPT !.cells = Tail(df.rows[i].cells)]]]

\* if df.columns[0] == '' or df.columns[0] == 'Unnamed: 0'
skip_empty_first_column(df) ==
    IF df.columns[1] = <<>> \/ df.columns[1] = UNNAMED_0
    THEN drop_first_column(df) ELSE df

\* df.rename(columns={df.columns[j]: 'SALONS'})
rename_to_salons(df, j) == [df EXCEPT !.columns[j] = SALONS]

\* The loop "for col in df.columns: if 'SALON' in str(col).upper()": the
\* index of the first matching column, 0 for salon_col = None.
find_salon_col(df) ==
    IF \E j \in 1..Len(df.columns) : contains(upper(df.columns[j]), SALON)
    THEN CHOOSE j \in 1..Len(df.columns) :
            /\ contains(upper(df.columns[j]), SALON)
            /\ \A i \in 1..(j - 1) : ~contains(upper(df.columns[i]), SALON)
    ELSE 0

\* Mutant of ensure_salons_column: the positional fallback comes before the
\* search for a similar name.
ensure_salons_column_positionFirst(df) ==
    IF HasColumn(df, SALONS) THEN df
    ELSE IF Len(df.columns) >= 3 THEN rename_to_salons(df, 3)
         ELSE LET salon_col == find_salon_col(df) IN
              IF salon_col # 0 THEN rename_to_salons(df, salon_col) ELSE df

\* "Ensure we have a SALONS column", new.py:1468-1482.
ensure_salons_column(df) ==
    IF HasColumn(df, SALONS) THEN df
    ELSE LET salon_col == find_salon_col(df) IN
         IF salon_col # 0 THEN rename_to_salons(df, salon_col)
         ELSE IF Len(df.columns) >= 3 THEN rename_to_salons(df, 3)
              ELSE df

filter_rows(df, Keep(_)) == [df EXCEPT !.rows = SelectSeq(df.rows, Keep)]

\* "Filter out rows where SALONS is missing or empty or contains summary
\* data", new.py:1484-1498.
filter_salon_rows(df) ==
    IF ~HasColumn(df, SALONS) THEN df
    ELSE
    LET j == ColIndex(df, SALONS)
        text(r) == astype_str(r.cells[j], df.dtypes[j])
        d1 == filter_rows(df, LAMBDA r : r.cells[j] # NULL)
        d2 == filter_rows(d1, LAMBDA r : strip(text(r)) # <<>>)
        d3 == filter_rows(d2, LAMBDA r : ~match_digits(text(r)))
    IN  IF ~HasColumn(d3, S_NO) THEN d3
        ELSE LET k == ColIndex(d3, S_NO)
                 d4 == filter_rows(d3, LAMBDA r : r.cells[k] # NULL)
             IN  filter_rows(d4,
                     LAMBDA r : ~isna(to_numeric(r.cells[k], d4.dtypes[k])))

IsMonthName(name) == \E m \in 1..Len(MonthNames) : MonthNames[m] = name

\* month_columns = [col for col in df.columns if col in [...]]: the indexes
\* of the month columns, in column order.
RECURSIVE month_columns_from(_, _)
month_columns_from(df, j) ==
    IF j > Len(df.columns) THEN <<>>
    ELSE (IF IsMonthName(df.columns[j]) THEN <<j>> ELSE <<>>)
         \o month_columns_from(df, j + 1)

month_columns(df) == month_columns_from(df, 1)

\* Mutant of clean_month_cell: an unparseable cell is filled with 0.
clean_month_cell_fillZero(cell, dtype) ==
    LET v == IF dtype = "object"
             THEN to_numeric_text(
                      remove_char(remove_char(remove_char(
                          astype_str(cell, dtype), ","), RUPEE), " "))
             ELSE to_numeric(cell, dtype)
    IN  IF isna(v) THEN Num(0) ELSE v

\* "Convert month columns to numeric, handling commas and currency symbols",
\* new.py:1508-1518, for one cell.
clean_month_cell(cell, dtype) ==
    IF dtype = "object"
    THEN to_numeric_text(
             remove_char(remove_char(remove_char(
                 astype_str(cell, dtype), ","), RUPEE), " "))
    ELSE to_numeric(cell, dtype)

EmptyDataFrame == [columns |-> <<>>, salons_dtype |-> "object", rows |-> <<>>]

\* The state before load_mtd_salon_data is called.
NotLoaded == [data |-> EmptyDataFrame, exc |-> "#not-loaded"]

NoTable == [header |-> <<>>, rows |-> <<>>]

\* salon_data = df[['SALONS'] + month_columns].copy() with its month columns
\* converted: the row keeps its index, its identifier and one value per month.
select_salon_data(df) ==
    LET j == ColIndex(df, SALONS)
        mc == month_columns(df)
    IN  [columns |-> <<SALONS>> \o [m \in 1..Len(mc) |-> df.columns[mc[m]]],
         salons_dtype |-> df.dtypes[j],
         rows |-> [i \in 1..Len(df.rows) |->
                     [idx |-> df.rows[i].idx,
                      SALONS |-> df.rows[i].cells[j],
                      values |-> [m \in 1..Len(mc) |->
                          clean_month_cell(df.rows[i].cells[mc[m]],
                                           df.dtypes[mc[m]])]]]]

\* Remove any rows where SALONS contains "total" (case insensitive).
remove_total_rows(sd) ==
    [sd EXCEPT !.rows = SelectSeq(sd.rows,
        LAMBDA r : ~contains(lower(astype_str(r.SALONS, sd.salons_dtype)),
                             TOTAL_LOWER))]

\* load_mtd_salon_data(file_path, target_year), new.py:1456-1526.  The
\* result is the returned table together with the exception the except
\* clause caught ("none" when the try block ran to its return).
load_mtd_salon_data(raw) ==
    LET df0 == strip_columns(read_csv(raw)) IN
    IF Len(df0.columns) = 0
    THEN [data |-> EmptyDataFrame, exc |-> "IndexError"]
    ELSE
    LET df1 == skip_empty_first_column(df0)
        df2 == ensure_salons_column(df1)
        df3 == filter_salon_rows(df2)
    IN  IF ~HasColumn(df3, SALONS)
        THEN [data |-> EmptyDataFrame, exc |-> "KeyError"]
        ELSE [data |-> remove_total_rows(select_salon_data(df3)), exc |-> "none"]

\* Cell texts of the modelled files.
BLANK == <<" ">>
T_42 == <<"4", "2">>
T_SPA == <<"S", "p", "a">>
T_CUT == <<"C", "u", "t">>
T_SUB_TOTAL == <<"S", "u", "b", " ", "T", "o", "t", "a", "l">>
T_TOTAL_UPPER == <<"T", "O", "T", "A", "L">>
T_LOREAL == <<"L", "o", "r", "e", "a", "l">>
T_1 == <<"1">>
T_X == <<"x">>
T_12 == <<"1", "2">>
T_5 == <<"5">>
T_0 == <<"0">>
T_RUPEE_1234 == <<RUPEE, " ", "1", ",", "2", "3", "4">>
T_ABC == <<"a", "b", "c">>
T_1_000 == <<"1", " ", "0", "0", "0">>
T_DASH == <<"-">>

-----------------------------------------------------------------------------
(* The normalizer on its own: one call of load_mtd_salon_data on one file. *)
(* The header names of a file are distinct once stripped, and numbers in   *)
(* cells are whole numbers.                                                *)

MaxCols == 3
MaxRows == 2

ColumnNames ==
    {SALONS, SALONS_PADDED, SALON_NAME, OUTLET, S_NO, BRAND, UNNAMED_0,
     JANUARY, FEBRUARY}

\* Every row for the header h whose j-th cell is a cell of Cells[h[j]].
RECURSIVE RowsOf(_, _)
RowsOf(h, Cells) ==
    IF h = <<>> THEN {<<>>}
    ELSE {<<c>> \o r : c \in Cells[h[1]], r \in RowsOf(Tail(h), Cells)}

TablesOf(h, Cells, maxRows) ==
    {[header |-> h, rows |-> rs] :
        rs \in UNION {[1..n -> RowsOf(h, Cells)] : n \in 1..maxRows}}

\* Layouts: every order of up to MaxCols columns, with or without the empty
\* first column, one data row.
LayoutNames == {SALONS, SALONS_PADDED, SALON_NAME, S_NO, BRAND, JANUARY}

LayoutHeaders ==
    LET bodies == UNION {
            {h \in [1..n -> LayoutNames] :
                \A a, b \in 1..n : a # b => strip(h[a]) # strip(h[b])}
            : n \in 1..MaxCols}
    IN  bodies \cup {<<UNNAMED_0>> \o h : h \in bodies}

LayoutCells ==
    [name \in ColumnNames |->
    IF name = SALONS \/ name = SALONS_PADDED THEN {T_CUT}
    ELSE IF name = SALON_NAME THEN {T_SPA}
    ELSE IF name = S_NO THEN {T_1}
    ELSE IF name = BRAND THEN {T_LOREAL}
    ELSE IF name = JANUARY THEN {T_12}
    ELSE {NULL}]

LayoutTables == UNION {TablesOf(h, LayoutCells, 1) : h \in LayoutHeaders}

\* Identifier rows: the usual layouts with every kind of identifier and
\* sequence-number cell.
IdCells == {NULL, BLANK, T_42, T_SPA, T_SUB_TOTAL, T_TOTAL_UPPER}

SnoCells == {NULL, T_1, T_X}

IdHeaders ==
    {<<S_NO, BRAND, SALONS, JANUARY>>,
     <<UNNAMED_0, S_NO, SALON_NAME, JANUARY>>,
     <<S_NO, BRAND, OUTLET, JANUARY>>,
     <<SALONS, JANUARY>>}

IdRowCells ==
    [name \in ColumnNames |->
    IF name = SALONS \/ name = SALON_NAME \/ name = OUTLET THEN IdCells
    ELSE IF name = S_NO THEN SnoCells
    ELSE IF name = BRAND THEN {T_LOREAL}
    ELSE IF name = JANUARY THEN {T_12}
    ELSE {NULL}]

IdTables == UNION {TablesOf(h, IdRowCells, MaxRows) : h \in IdHeaders}

\* Monthly cells: one layout with every kind of monthly cell.
MonthCells == {NULL, T_12, T_0, T_RUPEE_1234, T_1_000, T_ABC, T_DASH}

MonthRowCells ==
    [name \in ColumnNames |->
    IF name = SALONS THEN {T_SPA, T_CUT}
    ELSE IF name = JANUARY THEN MonthCells
    ELSE IF name = FEBRUARY THEN {NULL, T_5}
    ELSE {NULL}]

MonthTables == TablesOf(<<SALONS, JANUARY, FEBRUARY>>, MonthRowCells, MaxRows)

RawTables == LayoutTables \cup IdTables \cup MonthTables


\* One call load_mtd_salon_data(file_path, year) on the file's table.
LoadMtd ==
    /\ loaded = NotLoaded
    /\ raw_table # NoTable
    /\ loaded' = load_mtd_salon_data(raw_table)
    /\ UNCHANGED <<raw_table, fmtVars, monthVars, tab5Vars, dashVars, auxVars>>

-----------------------------------------------------------------------------
(* Claims about the schema normalizer, verified under SpecNorm.             *)

Loaded == loaded # NotLoaded

OutRows == loaded.data.rows

\* The header names with surrounding whitespace stripped.
StrippedHeader(h) == [j \in 1..Len(h) |-> strip(h[j])]

\* The header that remains when a leading empty column is dropped.
CleanHeader(h) ==
    LET s == StrippedHeader(h) IN
    IF Len(s) > 0 /\ s[1] \in {<<>>, UNNAMED_0} THEN Tail(s) ELSE s

FirstIndex(h, P(_)) ==
    CHOOSE j \in 1..Len(h) : P(h[j]) /\ \A i \in 1..(j - 1) : ~P(h[i])

\* The ordered chain of the claim on a header h: the exact name, then the
\* first name containing SALON in any case, then the 3rd column; 0 when
\* every strategy finds nothing.
ChainColumn(h) ==
    LET exact(n) == n = SALONS
        similar(n) == contains(upper(n), SALON)
    IN  IF \E j \in 1..Len(h) : exact(h[j]) THEN FirstIndex(h, exact)
        ELSE IF \E j \in 1..Len(h) : similar(h[j]) THEN FirstIndex(h, similar)
        ELSE IF Len(h) >= 3 THEN 3
        ELSE 0

\* The identifier of every returned row is the cell of column c of the file.
IdentifierFromColumn(c) ==
    \A k \in 1..Len(OutRows) :
        OutRows[k].SALONS = raw_table.rows[OutRows[k].idx][c]

PurelyNumeric(r) ==
    \/ loaded.data.salons_dtype \in {"int64", "float64"}
    \/ match_digits(r.SALONS)

\* The sequence-number cell of a returned row, when the table has an S.NO
\* column next to its identifier column.
HasSeqNo == \E j \in 1..Len(raw_table.header) : strip(raw_table.header[j]) = S_NO

SeqNoCell(r) ==
    raw_table.rows[r.idx][CHOOSE j \in 1..Len(raw_table.header) :
                              strip(raw_table.header[j]) = S_NO]

\* C7: no row of the table returned by load_mtd_salon_data is a junk or
\* summary row: no identifier is null, empty or blank, purely numeric, or
\* contains "total" in any letter case, and no row has a non-numeric or
\* missing sequence number (S.NO) when that column exists.
C7_NoJunkRows ==
    Loaded =>
        \A k \in 1..Len(OutRows) :
            LET r == OutRows[k] IN
            /\ r.SALONS # NULL
            /\ strip(r.SALONS) # <<>>
            /\ ~PurelyNumeric(r)
            /\ ~contains(lower(r.SALONS), TOTAL_LOWER)
            /\ (HasSeqNo /\ ChainColumn(CleanHeader(raw_table.header)) # 0) =>
                  (SeqNoCell(r) # NULL /\ IsIntText(SeqNoCell(r)))

\* Reading a monthly cell as the claim describes it: thousands separators,
\* the currency symbol and spaces are removed, what is left is read as a
\* number, and anything else is missing.
CleanedText(cell) == SelectSeq(cell, LAMBDA c : c \notin {",", RUPEE, " "})

ParsedCell(cell) ==
    IF cell # NULL /\ IsIntText(CleanedText(cell))
    THEN Num(IntOfText(CleanedText(cell)))
    ELSE NaN

\* The columns of the file that hold monthly values, left to right, given
\* the identifier column c of the file.
MonthCols(c) ==
    LET h == StrippedHeader(raw_table.header)
        isMonth(j) == j # c /\ \E m \in 1..Len(MonthNames) : MonthNames[m] = h[j]
    IN  SelectSeq([j \in 1..Len(h) |-> j], isMonth)

\* A row of the file that no identifier or sequence-number rule drops.
RegularRow(i, c) ==
    LET id == raw_table.rows[i][c] IN
    /\ id # NULL
    /\ strip(id) # <<>>
    /\ ~IsIntText(id)
    /\ ~contains(lower(id), TOTAL_LOWER)
    /\ HasSeqNo =>
          LET s == raw_table.rows[i][CHOOSE j \in 1..Len(raw_table.header) :
                                         strip(raw_table.header[j]) = S_NO]
          IN  s # NULL /\ IsIntText(s)

\* C8: each monthly cell is parsed after removing thousands separators, the
\* currency symbol and spaces; a cell that still cannot be parsed becomes
\* missing (never zero), and the row that holds it is retained.
C8_CellCoercion ==
    Loaded /\ loaded.exc = "none" =>
        LET h == CleanHeader(raw_table.header)
            c == ChainColumn(h) + (Len(raw_table.header) - Len(h))
            mc == MonthCols(c)
        IN  /\ \A k \in 1..Len(OutRows) :
                  /\ Len(OutRows[k].values) = Len(mc)
                  /\ \A m \in 1..Len(mc) :
                        OutRows[k].values[m] =
                            ParsedCell(raw_table.rows[OutRows[k].idx][mc[m]])
            /\ \A i \in 1..Len(raw_table.rows) :
                  RegularRow(i, c) => \E k \in 1..Len(OutRows) : OutRows[k].idx = i

\* A row with an unparseable January cell is returned with a missing value.
C8_Witness ==
    /\ Loaded
    /\ \E k \in 1..Len(OutRows) :
          /\ raw_table.rows[OutRows[k].idx] = <<T_SPA, T_ABC, T_5>>
          /\ OutRows[k].values = <<NaN, Num(5)>>
    /\ \E k \in 1..Len(OutRows) :
          /\ raw_table.rows[OutRows[k].idx] = <<T_CUT, T_RUPEE_1234, T_5>>
          /\ OutRows[k].values = <<Num(1234), Num(5)>>

-----------------------------------------------------------------------------
(* Month-label normalization of the outlet comparison, new.py:205-235.     *)

JAN == <<"J", "a", "n">>
FEB == <<"F", "e", "b">>
MAR == <<"M", "a", "r">>
APR == <<"A", "p", "r">>
JUN == <<"J", "u", "n">>
JUL == <<"J", "u", "l">>
AUG == <<"A", "u", "g">>
SEP == <<"S", "e", "p">>
OCT == <<"O", "c", "t">>
NOV == <<"N", "o", "v">>
DEC == <<"D", "e", "c">>

month_order ==
    <<JANUARY, FEBRUARY, MARCH, APRIL, MAY, JUNE,
      JULY, AUGUST, SEPTEMBER, OCTOBER, NOVEMBER, DECEMBER>>

\* Mutant of month_mapping: 'Jun' is mapped to the neighbouring key 'Jul'.
month_mapping_junToJul ==
    <<<<JAN, JANUARY>>, <<FEB, FEBRUARY>>, <<MAR, MARCH>>, <<APR, APRIL>>,
      <<MAY, MAY>>, <<JUN, JUL>>, <<JUL, JULY>>, <<AUG, AUGUST>>,
      <<SEP, SEPTEMBER>>, <<OCT, OCTOBER>>, <<NOV, NOVEMBER>>, <<DEC, DECEMBER>>>>

\* The dictionary month_mapping as its key/value pairs.
month_mapping ==
    <<<<JAN, JANUARY>>, <<FEB, FEBRUARY>>, <<MAR, MARCH>>, <<APR, APRIL>>,
      <<MAY, MAY>>, <<JUN, JUNE>>, <<JUL, JULY>>, <<AUG, AUGUST>>,
      <<SEP, SEPTEMBER>>, <<OCT, OCTOBER>>, <<NOV, NOVEMBER>>, <<DEC, DECEMBER>>>>

\* Series.replace(mapping) for one value: the value of the key equal to the
\* label, the label itself when no key equals it.
replace_value(mapping, label) ==
    IF \E k \in 1..Len(mapping) : mapping[k][1] = label
    THEN mapping[CHOOSE k \in 1..Len(mapping) : mapping[k][1] = label][2]
    ELSE label

\* outlet_yearly['Month'].replace(month_mapping)
replace_months(column) ==
    [k \in 1..Len(column) |-> replace_value(month_mapping, column[k])]

NotNormalized == <<<<"#not-normalized">>>>

MaxLabels == 2

\* Labels that are neither one of the keys nor one of the full names.
OtherLabels ==
    {<<"S", "e", "p", "t">>, <<"J", "A", "N">>, <<"j", "a", "n">>,
     <<"J", "a", "n", ".">>, <<"Q", "1">>, <<>>}

MonthLabels ==
    {month_mapping[k][1] : k \in 1..Len(month_mapping)}
    \cup {month_order[k] : k \in 1..Len(month_order)}
    \cup OtherLabels

\* The Month column is replaced by its normalized labels.
NormalizeMonths ==
    /\ month_normal = NotNormalized
    /\ month_labels # <<>>
    /\ month_normal' = replace_months(month_labels)
    /\ UNCHANGED <<month_labels, fmtVars, normVars, tab5Vars, dashVars, auxVars>>

-----------------------------------------------------------------------------
(* Claims about month-label normalization, verified under SpecMonth.        *)

MonthsNormalized == month_normal # NotNormalized

\* The three-letter abbreviation of a month name.
Abbrev(name) == SubSeq(name, 1, 3)

CanonicalMonths == {month_order[m] : m \in 1..Len(month_order)}

KnownAbbrevs == {Abbrev(n) : n \in CanonicalMonths}

\* C9: month-label normalization maps each of the 12 known three-letter
\* abbreviations to its full month name and returns every other label
\* unchanged; it is idempotent, and its result for a known abbreviation is
\* always one of the 12 canonical month names.
C9_MonthNormalization ==
    MonthsNormalized =>
        /\ Cardinality(KnownAbbrevs) = 12
        /\ Len(month_normal) = Len(month_labels)
        /\ \A k \in 1..Len(month_labels) :
              /\ month_labels[k] \in KnownAbbrevs =>
                    /\ month_normal[k] \in CanonicalMonths
                    /\ Abbrev(month_normal[k]) = month_labels[k]
              /\ month_labels[k] \notin KnownAbbrevs =>
                    month_normal[k] = month_labels[k]
        /\ replace_months(month_normal) = month_normal

C9_Witness ==
    /\ MonthsNormalized
    /\ month_labels = <<SEP, <<"S", "e", "p", "t">>>>
    /\ month_normal = <<SEPTEMBER, <<"S", "e", "p", "t">>>>

-----------------------------------------------------------------------------
(* The salon performance loader of the MTD analysis tab, new.py:1528-1742: *)
(* the files of the dataset directory, the year and month selection, one   *)
(* load per selected year and the merge of the loaded years.               *)

\* The keys of mtd_files_all, in its order.
mtd_years == <<"2022", "2023", "2024", "2025">>

YearIndex(y) == CHOOSE k \in 1..Len(mtd_years) : mtd_years[k] = y

\* A path of mtd_files_all at which os.path.exists finds no file.
MISSING == [header |-> <<<<"#missing">>>>, rows |-> <<>>]

\* month_options of the month selectbox that the modelled files can hold.
month_options == <<JANUARY, FEBRUARY>>

\* Characters in code-point order, for the lexicographic order of keys.
CharOrder ==
    <<" ">> \o DigitChars \o UpperChars \o LowerChars

CharCode(c) == CHOOSE k \in 1..Len(CharOrder) : CharOrder[k] = c

\* s < t for two texts, as Python compares strings.
RECURSIVE LexLess(_, _)
LexLess(s, t) ==
    IF Len(t) = 0 THEN FALSE
    ELSE IF Len(s) = 0 THEN TRUE
    ELSE IF s[1] = t[1] THEN LexLess(Tail(s), Tail(t))
    ELSE CharCode(s[1]) < CharCode(t[1])

\* The texts of a set in ascending order.
RECURSIVE SortedKeys(_)
SortedKeys(S) ==
    IF S = {} THEN <<>>
    ELSE LET m == CHOOSE x \in S : \A y \in S \ {x} : LexLess(x, y)
         IN  <<m>> \o SortedKeys(S \ {m})

\* Mutant of scan_available: every year of mtd_files_all, with or without file.
scan_available_allYears(files) == mtd_years

\* available_files: the years whose file exists, in the order of mtd_files_all.
scan_available(files) ==
    SelectSeq(mtd_years, LAMBDA y : files[y] # MISSING)

\* The selections st.multiselect can return: the chosen years, each once, in
\* the order they were chosen.
RECURSIVE Selections(_)
Selections(S) ==
    {<<>>} \cup UNION {{<<y>> \o rest : rest \in Selections(S \ {y})} : y \in S}

SeqRange(s) == {s[k] : k \in 1..Len(s)}

ColumnOf(data, name) ==
    CHOOSE j \in 1..Len(data.columns) : data.columns[j] = name

\* not salon_data.empty and selected_month in salon_data.columns
usable(salon_data, month) ==
    /\ Len(salon_data.rows) > 0
    /\ Len(salon_data.columns) > 0
    /\ \E j \in 1..Len(salon_data.columns) : salon_data.columns[j] = month

\* data = salon_data[['SALONS', selected_month]].copy() with the month
\* column renamed to the year.
year_data(salon_data, month) ==
    LET j == ColumnOf(salon_data, month) - 1 IN
    [k \in 1..Len(salon_data.rows) |->
        [SALONS |-> salon_data.rows[k].SALONS,
         value  |-> salon_data.rows[k].values[j]]]

\* The loop "for year in selected_years" that fills all_salon_data: the
\* pairs (year, data) in insertion order.
RECURSIVE load_selected(_, _, _)
load_selected(files, years, month) ==
    IF years = <<>> THEN <<>>
    ELSE LET salon_data == load_mtd_salon_data(files[years[1]]).data
             rest == load_selected(files, Tail(years), month)
         IN  IF usable(salon_data, month)
             THEN <<[year |-> years[1], data |-> year_data(salon_data, month)]>>
                  \o rest
             ELSE rest

\* The rows of pd.merge(left, right, on='SALONS', how='outer') for one key:
\* every pairing of the left and right rows of the key, NaN where a side
\* has no row.
RECURSIVE pair_rows(_, _, _, _)
pair_rows(key, L, R, width) ==
    IF L = <<>> /\ R = <<>> THEN <<>>
    ELSE IF L = <<>>
    THEN [k \in 1..Len(R) |->
            [SALONS |-> key, vals |-> [c \in 1..width |-> NaN] \o <<R[k].value>>]]
    ELSE IF R = <<>>
    THEN [k \in 1..Len(L) |-> [SALONS |-> key, vals |-> L[k].vals \o <<NaN>>]]
    ELSE [k \in 1..Len(R) |->
            [SALONS |-> key, vals |-> L[1].vals \o <<R[k].value>>]]
         \o (IF Len(L) > 1 THEN pair_rows(key, Tail(L), R, width) ELSE <<>>)

RECURSIVE merge_keys(_, _, _, _)
merge_keys(keys, left, right, width) ==
    IF keys = <<>> THEN <<>>
    ELSE pair_rows(keys[1],
                   SelectSeq(left, LAMBDA r : r.SALONS = keys[1]),
                   SelectSeq(right, LAMBDA r : r.SALONS = keys[1]),
                   width)
         \o merge_keys(Tail(keys), left, right, width)

\* pd.merge(merged_data, data, on='SALONS', how='outer'): the keys of both
\* sides in lexicographic order.
outer_merge(merged, entry) ==
    LET keys == SortedKeys({merged.rows[k].SALONS : k \in 1..Len(merged.rows)}
                           \cup {entry.data[k].SALONS : k \in 1..Len(entry.data)})
    IN  [columns |-> Append(merged.columns, entry.year),
         rows |-> merge_keys(keys, merged.rows, entry.data, Len(merged.columns))]

\* The loop "for year, data in all_salon_data.items()": the first data is
\* taken as it is, every later one is merged in.
RECURSIVE merge_all(_, _)
merge_all(merged, entries) ==
    IF entries = <<>> THEN merged
    ELSE merge_all(outer_merge(merged, entries[1]), Tail(entries))

first_frame(entry) ==
    [columns |-> <<entry.year>>,
     rows |-> [k \in 1..Len(entry.data) |->
                  [SALONS |-> entry.data[k].SALONS, vals |-> <<entry.data[k].value>>]]]

\* pd.to_numeric(...).fillna(0) on the column of every selected year.
fillna_zero(merged, years) ==
    [merged EXCEPT !.rows =
        [k \in 1..Len(merged.rows) |->
            [merged.rows[k] EXCEPT !.vals =
                [c \in 1..Len(merged.columns) |->
                    IF merged.columns[c] \in SeqRange(years)
                       /\ isna(merged.rows[k].vals[c])
                    THEN Num(0) ELSE merged.rows[k].vals[c]]]]]

\* max(selected_years)
latest_of(years) ==
    CHOOSE y \in SeqRange(years) :
        \A z \in SeqRange(years) : YearIndex(z) <= YearIndex(y)

RowOrders(n) ==
    {p \in [1..n -> 1..n] : \A a, b \in 1..n : a # b => p[a] # p[b]}

\* merged_data.sort_values(by=latest_year, ascending=False): the sort is not
\* stable, so rows with equal values may come out in any order.
sorted_frames(merged, years) ==
    IF \E c \in 1..Len(merged.columns) : merged.columns[c] = latest_of(years)
    THEN LET c == CHOOSE c \in 1..Len(merged.columns) :
                      merged.columns[c] = latest_of(years)
             n == Len(merged.rows)
         IN  {[merged EXCEPT !.rows = [k \in 1..n |-> merged.rows[p[k]]]] :
                 p \in {q \in RowOrders(n) :
                           \A k \in 1..(n - 1) :
                               merged.rows[q[k]].vals[c].val
                                   >= merged.rows[q[k + 1]].vals[c].val}}
    ELSE {merged}

NoFrame == [columns |-> <<>>, rows |-> <<>>]

NO_MTD_FILES == [kind |-> "warning", text |-> "No MTD files found in the dataset directory"]
SELECT_YEAR_AND_MONTH == [kind |-> "info", text |-> "Please select at least one year and a month"]
NO_DATA_FOR_MONTH == [kind |-> "warning", text |-> "No data available for the month in the selected years"]

\* available_files is filled from the dataset directory (new.py:1539-1545);
\* with no file at all the tab only shows a warning (new.py:1740-1742).
ScanFiles ==
    /\ pc = "start"
    /\ available_files' = scan_available(mtd_files)
    /\ IF available_files' = <<>>
       THEN st_messages' = Append(st_messages, NO_MTD_FILES) /\ pc' = "done"
       ELSE st_messages' = st_messages /\ pc' = "scanned"
    /\ UNCHANGED <<mtd_files, selected_years, selected_month, all_salon_data,
                   merged_data, tab5OutVars, fmtVars,
                   normVars, monthVars, dashVars, auxVars>>

\* The year multiselect and the month selectbox (new.py:1547-1558); with no
\* year selected the tab only shows a notice (new.py:1738-1739).
SelectFilters ==
    /\ pc = "scanned"
    /\ selected_years' \in Selections(SeqRange(available_files))
    /\ selected_month' \in SeqRange(month_options)
    /\ IF selected_years' = <<>>
       THEN st_messages' = Append(st_messages, SELECT_YEAR_AND_MONTH) /\ pc' = "done"
       ELSE st_messages' = st_messages /\ pc' = "selected"
    /\ UNCHANGED <<mtd_files, available_files, all_salon_data, merged_data,
                   tab5OutVars, fmtVars,
                   normVars, monthVars, dashVars, auxVars>>

\* Every selected year is loaded (new.py:1563-1576); with no usable year the
\* tab only shows a warning (new.py:1735-1737).
LoadYears ==
    /\ pc = "selected"
    /\ all_salon_data' = load_selected(mtd_files, selected_years, selected_month)
    /\ IF Len(all_salon_data') > 0
       THEN st_messages' = st_messages /\ pc' = "loaded"
       ELSE st_messages' = Append(st_messages, NO_DATA_FOR_MONTH) /\ pc' = "done"
    /\ UNCHANGED <<mtd_files, available_files, selected_years, selected_month,
                   merged_data, tab5OutVars, fmtVars,
                   normVars, monthVars, dashVars, auxVars>>

\* The loaded years are merged on SALONS, missing values are filled with 0
\* and the rows are sorted by the latest selected year (new.py:1578-1601).
MergeYears ==
    /\ pc = "loaded"
    /\ merged_data' \in
          sorted_frames(
              fillna_zero(merge_all(first_frame(all_salon_data[1]),
                                    Tail(all_salon_data)),
                          selected_years),
              selected_years)
    /\ pc' = "merged"
    /\ UNCHANGED <<mtd_files, available_files, selected_years, selected_month,
                   all_salon_data, st_messages, tab5OutVars, fmtVars,
                   normVars, monthVars, dashVars, auxVars>>


-----------------------------------------------------------------------------
(* Floating-point values of the growth computations.  A finite value is an *)
(* exact fraction num/den in lowest terms with den > 0; inf, -inf and nan  *)
(* are the values that numpy and pandas give to a division by zero.        *)

RECURSIVE Gcd(_, _)
Gcd(a, b) == IF b = 0 THEN a ELSE Gcd(b, a % b)

Abs(x) == IF x < 0 THEN -x ELSE x

Sign(x) == IF x > 0 THEN 1 ELSE IF x < 0 THEN -1 ELSE 0

Fin(n, d) ==
    LET g == Gcd(Abs(n), Abs(d))
        s == Sign(d)
    IN  [kind |-> "finite", num |-> (s * n) \div g, den |-> (s * d) \div g]

INF == [kind |-> "inf", num |-> 1, den |-> 0]
NEG_INF == [kind |-> "inf", num |-> -1, den |-> 0]
NAN == [kind |-> "nan", num |-> 0, den |-> 0]

\* float(x) of a whole number.
Float(v) == Fin(v, 1)

Signed(s) == IF s > 0 THEN INF ELSE IF s < 0 THEN NEG_INF ELSE NAN

\* a / b on float64 values of a Series or of numpy scalars: a division by
\* zero gives inf, -inf or nan and raises nothing.
float_div(a, b) ==
    IF a.kind = "nan" \/ b.kind = "nan" THEN NAN
    ELSE IF a.kind = "inf"
         THEN IF b.kind = "inf" THEN NAN
              ELSE IF b.num < 0 THEN Signed(-a.num) ELSE Signed(a.num)
    ELSE IF b.kind = "inf" THEN Float(0)
    ELSE IF b.num = 0 THEN Signed(Sign(a.num))
    ELSE Fin(a.num * b.den, a.den * b.num)

\* a - b
float_sub(a, b) ==
    IF a.kind = "nan" \/ b.kind = "nan" THEN NAN
    ELSE IF a.kind = "inf"
         THEN IF b.kind = "inf" /\ b.num = a.num THEN NAN ELSE a
    ELSE IF b.kind = "inf" THEN Signed(-b.num)
    ELSE Fin(a.num * b.den - b.num * a.den, a.den * b.den)

\* a * b
float_mul(a, b) ==
    IF a.kind = "nan" \/ b.kind = "nan" THEN NAN
    ELSE IF a.kind = "inf" \/ b.kind = "inf"
         THEN Signed(Sign(a.num) * Sign(b.num))
    ELSE Fin(a.num * b.num, a.den * b.den)

\* a > 0 and a != 0; every comparison with nan is false except !=.
float_gt0(a) == a.kind # "nan" /\ a.num > 0
float_ne0(a) == a.kind = "nan" \/ a.num # 0

\* abs(a) > k for a whole number k
float_abs_gt(a, k) ==
    \/ a.kind = "inf"
    \/ a.kind = "finite" /\ Abs(a.num) > k * a.den

\* Mutant of growth_percent: the ratio itself, without the "- 1".
growth_percent_noMinusOne(compare, base) ==
    float_mul(float_div(compare, base), Float(100))

\* ((compare / base) - 1) * 100
growth_percent(compare, base) ==
    float_mul(float_sub(float_div(compare, base), Float(1)), Float(100))

RECURSIVE Pow10Of(_)
Pow10Of(k) == IF k = 0 THEN 1 ELSE 10 * Pow10Of(k - 1)

RECURSIVE ZeroPad(_, _)
ZeroPad(s, width) == IF Len(s) >= width THEN s ELSE ZeroPad(<<"0">> \o s, width)

\* f"{x:.<places>f}": the nearest decimal with the given number of places,
\* ties to even; "inf", "-inf" and "nan" for the non-finite values.
format_fixed(x, places) ==
    IF x.kind = "nan" THEN <<"n", "a", "n">>
    ELSE IF x.kind = "inf"
         THEN (IF x.num < 0 THEN <<"-">> ELSE <<>>) \o <<"i", "n", "f">>
    ELSE LET scaled == Abs(x.num) * Pow10Of(places)
             q == scaled \div x.den
             r == scaled % x.den
             up == 2 * r > x.den \/ (2 * r = x.den /\ q % 2 = 1)
             m == IF up THEN q + 1 ELSE q
         IN  (IF x.num < 0 THEN <<"-">> ELSE <<>>)
                 \o NatDigits(m \div Pow10Of(places))
                 \o <<".">>
                 \o ZeroPad(NatDigits(m % Pow10Of(places)), places)

\* f"{x:.2f}%" and f"{x:.1f}%"
format_percent(x, places) == format_fixed(x, places) \o <<"%">>

-----------------------------------------------------------------------------
(* The chart, the growth columns and the summary statistics of the salon   *)
(* performance view, src/new.py lines 1603-1734.                           *)

NoFigure == [traces |-> <<>>, annotations |-> <<>>]
NoDisplay == [columns |-> <<>>, rows |-> <<>>]

HasYear(frame, year) == \E c \in 1..Len(frame.columns) : frame.columns[c] = year

YearColumn(frame, year) == CHOOSE c \in 1..Len(frame.columns) : frame.columns[c] = year

\* merged_data.head(n)
head(frame, n) ==
    [frame EXCEPT !.rows = SubSeq(frame.rows, 1, IF Len(frame.rows) < n
                                                  THEN Len(frame.rows) ELSE n)]

\* format_indian_money(x).replace(RUPEE, '') if pd.notna(x) and x > 0 else ''
formatted_year(x) ==
    IF (~isna(x)) /\ x.val > 0
    THEN SelectSeq(format_indian_money(x, "full"), LAMBDA c : c # RUPEE)
    ELSE <<>>

\* top_salons[top_salons['SALONS'] == salon].iloc[0]
salon_row(top_salons, salon) ==
    top_salons.rows[CHOOSE k \in 1..Len(top_salons.rows) :
                        /\ top_salons.rows[k].SALONS = salon
                        /\ \A j \in 1..(k - 1) : top_salons.rows[j].SALONS # salon]

\* The trace that px.bar draws for one year, with the formatted text.
year_trace(top_salons, year) ==
    LET c == YearColumn(top_salons, year) IN
    [name |-> year,
     x |-> [k \in 1..Len(top_salons.rows) |-> top_salons.rows[k].SALONS],
     y |-> [k \in 1..Len(top_salons.rows) |-> top_salons.rows[k].vals[c]],
     text |-> [k \in 1..Len(top_salons.rows) |->
                  formatted_year(top_salons.rows[k].vals[c])]]

\* The annotation of one salon for one pair of years: growth above 10
\* percent in absolute value is annotated, anything else is not.
pair_annotation(top_salons, prev_year, current_year, salon) ==
    LET row == salon_row(top_salons, salon)
        prev_val == row.vals[YearColumn(top_salons, prev_year)]
        curr_val == row.vals[YearColumn(top_salons, current_year)]
        growth == growth_percent(Float(curr_val.val), Float(prev_val.val))
    IN  IF prev_val.val > 0 /\ float_abs_gt(growth, 10)
        THEN << [x |-> salon, y |-> curr_val, text |-> format_percent(growth, 1)] >>
        ELSE <<>>

RECURSIVE salon_annotations(_, _, _, _)
salon_annotations(top_salons, prev_year, current_year, j) ==
    IF j > Len(top_salons.rows) THEN <<>>
    ELSE pair_annotation(top_salons, prev_year, current_year,
                         top_salons.rows[j].SALONS)
             \o salon_annotations(top_salons, prev_year, current_year, j + 1)

\* for i in range(1, len(selected_years)); i is the 1-based position of
\* the previous year.
RECURSIVE growth_annotations(_, _, _)
growth_annotations(top_salons, years, i) ==
    IF i >= Len(years) THEN <<>>
    ELSE salon_annotations(top_salons, years[i], years[i + 1], 1)
             \o growth_annotations(top_salons, years, i + 1)

\* px.bar(top_salons, x='SALONS', y=selected_years) raises ValueError when
\* one of the y names is not a column of the table.
bar_chart(top_salons, years) ==
    IF \E i \in 1..Len(years) : ~HasYear(top_salons, years[i])
    THEN [raised |-> "ValueError", fig |-> NoFigure]
    ELSE [raised |-> "none",
          fig |-> [traces |-> [i \in 1..Len(years) |-> year_trace(top_salons, years[i])],
                   annotations |-> growth_annotations(top_salons, years, 1)]]

\* format_indian_money(x) if x > 0 else ""
display_cell(x) == IF x.val > 0 THEN format_indian_money(x, "full") ELSE <<>>

\* display_data = merged_data.copy() with every year column formatted.
display_years(merged) ==
    [columns |-> merged.columns,
     rows |-> [k \in 1..Len(merged.rows) |->
                  [SALONS |-> merged.rows[k].SALONS,
                   vals |-> [c \in 1..Len(merged.columns) |->
                                display_cell(merged.rows[k].vals[c])]]]]

\* The lambda of merged_data.apply(..., axis=1): the condition reads
\* row[prev_year] first, and row[current_year] is only read when the
\* previous value is positive; a year that is not a column is a KeyError.
row_growth(merged, row, prev_year, current_year) ==
    IF ~HasYear(merged, prev_year) THEN [raised |-> "KeyError", value |-> NAN]
    ELSE IF row.vals[YearColumn(merged, prev_year)].val > 0
         THEN IF ~HasYear(merged, current_year)
              THEN [raised |-> "KeyError", value |-> NAN]
              ELSE [raised |-> "none",
                    value |-> growth_percent(
                        Float(row.vals[YearColumn(merged, current_year)].val),
                        Float(row.vals[YearColumn(merged, prev_year)].val))]
         ELSE [raised |-> "none", value |-> Float(0)]

\* f"{x:.2f}%" if x != 0 else ""
display_growth_cell(x) == IF float_ne0(x) THEN format_percent(x, 2) ELSE <<>>

\* One growth column "Growth prev-current" of merged_data and display_data.
growth_column(merged, prev_year, current_year) ==
    LET cells == [k \in 1..Len(merged.rows) |->
                     row_growth(merged, merged.rows[k], prev_year, current_year)]
    IN  IF \E k \in 1..Len(cells) : cells[k].raised # "none"
        THEN [raised |-> "KeyError", column |-> <<>>]
        ELSE [raised |-> "none",
              column |-> << [prev |-> prev_year, curr |-> current_year,
                             values |-> [k \in 1..Len(cells) |-> cells[k].value],
                             shown |-> [k \in 1..Len(cells) |->
                                           display_growth_cell(cells[k].value)]] >>]

\* for i in range(1, len(selected_years)): the columns added before the
\* first exception stay in the tables.
RECURSIVE growth_columns(_, _, _, _)
growth_columns(merged, years, i, acc) ==
    IF i >= Len(years) THEN [raised |-> "none", columns |-> acc]
    ELSE LET col == growth_column(merged, years[i], years[i + 1]) IN
         IF col.raised # "none" THEN [raised |-> col.raised, columns |-> acc]
         ELSE growth_columns(merged, years, i + 1, acc \o col.column)

RECURSIVE column_sum(_, _, _)
column_sum(merged, c, k) ==
    IF k > Len(merged.rows) THEN 0
    ELSE merged.rows[k].vals[c].val + column_sum(merged, c, k + 1)

\* totals[year] = merged_data[year].sum() for the years that are columns
year_totals(merged, years) ==
    LET present == SelectSeq(years, LAMBDA y : HasYear(merged, y)) IN
    [k \in 1..Len(present) |->
        [year |-> present[k],
         total |-> column_sum(merged, YearColumn(merged, present[k]), 1)]]

in_totals(tot, year) == \E k \in 1..Len(tot) : tot[k].year = year

total_of(tot, year) == tot[CHOOSE k \in 1..Len(tot) : tot[k].year = year].total

\* sorted(selected_years): the year labels have equal length, so the
\* order of the texts is the order of the years.
sorted_years(years) ==
    LET S == SeqRange(years) IN
    [k \in 1..Cardinality(S) |->
        CHOOSE y \in S : Cardinality({z \in S : YearIndex(z) < YearIndex(y)}) = k - 1]

\* The loop that fills growth_stats: a pair is appended only when both
\* totals exist and the previous total is positive.
RECURSIVE growth_stats_of(_, _, _)
growth_stats_of(tot, years, i) ==
    IF i >= Len(years) THEN <<>>
    ELSE (IF /\ in_totals(tot, years[i + 1])
             /\ in_totals(tot, years[i])
             /\ total_of(tot, years[i]) > 0
          THEN << [From |-> years[i], To |-> years[i + 1],
                   Growth |-> growth_percent(Float(total_of(tot, years[i + 1])),
                                             Float(total_of(tot, years[i])))] >>
          ELSE <<>>)
         \o growth_stats_of(tot, years, i + 1)

NoDelta == <<"#None">>

\* The st.metric calls; i is the 0-based index of enumerate.  totals[year]
\* of a year without total is a KeyError, growth_stats[i-1] beyond the end
\* of the list is an IndexError; the metrics shown before stay shown.
RECURSIVE summary_metrics(_, _, _, _, _)
summary_metrics(tot, stats, years, i, acc) ==
    IF i >= Len(years) THEN [raised |-> "none", metrics |-> acc]
    ELSE IF ~in_totals(tot, years[i + 1])
         THEN [raised |-> "KeyError", metrics |-> acc]
    ELSE IF i > 0 /\ i - 1 >= Len(stats)
         THEN [raised |-> "IndexError", metrics |-> acc]
    ELSE summary_metrics(tot, stats, years, i + 1,
             Append(acc,
                 [label |-> years[i + 1],
                  value |-> format_indian_money(Num(total_of(tot, years[i + 1])), "full"),
                  delta |-> IF i > 0 THEN format_percent(stats[i].Growth, 2)
                            ELSE NoDelta]))

\* The chart is drawn for the first TOP_SALONS rows.
TOP_SALONS == 15

\* The chart of the top salons (new.py:1603-1658).  An exception of px.bar
\* ends the script of the tab.
DrawChart ==
    /\ pc = "merged"
    /\ LET chart == bar_chart(head(merged_data, TOP_SALONS), selected_years) IN
          /\ fig' = chart.fig
          /\ raised' = chart.raised
          /\ pc' = IF chart.raised = "none" THEN "charted" ELSE "raised"
    /\ UNCHANGED <<mtd_files, available_files, selected_years, selected_month,
                   all_salon_data, merged_data, st_messages, display_data,
                   growth_cols, totals, growth_stats, metrics,
                   fmtVars, normVars, monthVars, dashVars, auxVars>>

\* The table of all salons with its growth columns (new.py:1660-1694).
AddGrowthColumns ==
    /\ pc = "charted"
    /\ LET cols == growth_columns(merged_data, selected_years, 1, <<>>) IN
          /\ display_data' = display_years(merged_data)
          /\ growth_cols' = cols.columns
          /\ raised' = cols.raised
          /\ pc' = IF cols.raised = "none" THEN "tabled" ELSE "raised"
    /\ UNCHANGED <<mtd_files, available_files, selected_years, selected_month,
                   all_salon_data, merged_data, st_messages, fig, totals,
                   growth_stats, metrics, fmtVars, normVars, monthVars, dashVars, auxVars>>

\* The totals per year and their growth (new.py:1696-1734).
SummaryStatistics ==
    /\ pc = "tabled"
    /\ LET tot == year_totals(merged_data, selected_years)
           stats == growth_stats_of(tot, sorted_years(selected_years), 1)
           shown == summary_metrics(tot, stats, sorted_years(selected_years), 0, <<>>)
       IN /\ totals' = tot
          /\ growth_stats' = stats
          /\ metrics' = shown.metrics
          /\ raised' = shown.raised
          /\ pc' = IF shown.raised = "none" THEN "summarized" ELSE "raised"
    /\ UNCHANGED <<mtd_files, available_files, selected_years, selected_month,
                   all_salon_data, merged_data, st_messages, fig, display_data,
                   growth_cols, fmtVars, normVars, monthVars, dashVars, auxVars>>


\* The files the dataset directory can hold for a year.
SRC_NO_SALON ==
    [header |-> <<S_NO, BRAND>>, rows |-> << <<T_1, T_LOREAL>> >>]

SRC_SPA ==
    [header |-> <<S_NO, SALONS, JANUARY>>, rows |-> << <<T_1, T_SPA, T_12>> >>]

SRC_CUT_SPA ==
    [header |-> <<S_NO, SALON_NAME, JANUARY, FEBRUARY>>,
     rows |-> << <<T_1, T_CUT, T_RUPEE_1234, T_5>>, <<T_1, T_SPA, T_0, T_5>> >>]

SRC_FEBRUARY ==
    [header |-> <<SALONS, FEBRUARY>>, rows |-> << <<T_CUT, T_5>> >>]

\* A file that holds the salon Spa in two rows, sold nothing in January, and
\* has cells for the salon Cut that are no numbers.
SRC_REPEATED ==
    [header |-> <<SALONS, JANUARY, FEBRUARY>>,
     rows |-> << <<T_SPA, T_0, T_5>>, <<T_SPA, T_0, T_12>>, <<T_CUT, T_ABC, T_ABC>> >>]

SourceFiles ==
    {MISSING, SRC_NO_SALON, SRC_SPA, SRC_CUT_SPA, SRC_FEBRUARY, SRC_REPEATED}


-----------------------------------------------------------------------------
(* The aggregation of the sales and service tables (tabs 1 to 4).  A table *)
(* is a sequence of rows; a row is a record whose fields are the columns,  *)
(* read as row["MTD_SALES"].  Outlet names, months and years are texts.    *)

ALL == <<"A", "l", "l">>
Y2023 == <<"2", "0", "2", "3">>
Y2024 == <<"2", "0", "2", "4">>
Y2025 == <<"2", "0", "2", "5">>

OverflowError == <<"#OverflowError">>

\* df[col].unique()
unique(rows, col) == {rows[k][col] : k \in 1..Len(rows)}

\* df[df[col] == value]
where_equal(rows, col, value) == SelectSeq(rows, LAMBDA r : r[col] = value)

\* df[col].sum()
RECURSIVE series_sum(_, _)
series_sum(rows, col) ==
    IF rows = <<>> THEN 0
    ELSE rows[1][col] + series_sum(Tail(rows), col)

\* Mutant of groupby_sum: a later row of a key overwrites the earlier ones.
groupby_sum_lastRowWins(rows, by, col) ==
    LET keys == SortedKeys(unique(rows, by)) IN
    [i \in 1..Len(keys) |->
        LET group == where_equal(rows, by, keys[i]) IN
        (by :> keys[i]) @@ (col :> group[Len(group)][col])]

\* df.groupby(by)[col].sum().reset_index(): one row per key, in the
\* ascending order of the keys, holding the sum over the rows of the key.
groupby_sum(rows, by, col) ==
    LET keys == SortedKeys(unique(rows, by)) IN
    [i \in 1..Len(keys) |->
        (by :> keys[i]) @@ (col :> series_sum(where_equal(rows, by, keys[i]), col))]

\* (a1, a2) < (b1, b2) for two pairs of texts
PairLess(a, b) == LexLess(a[1], b[1]) \/ (a[1] = b[1] /\ LexLess(a[2], b[2]))

RECURSIVE SortedPairs(_)
SortedPairs(S) ==
    IF S = {} THEN <<>>
    ELSE LET m == CHOOSE x \in S : \A y \in S \ {x} : PairLess(x, y)
         IN  <<m>> \o SortedPairs(S \ {m})

\* df.groupby([by1, by2])[col].sum().reset_index()
groupby2_sum(rows, by1, by2, col) ==
    LET keys == SortedPairs({<<rows[k][by1], rows[k][by2]>> : k \in 1..Len(rows)}) IN
    [i \in 1..Len(keys) |->
        (by1 :> keys[i][1]) @@ (by2 :> keys[i][2]) @@
        (col :> series_sum(
                    where_equal(where_equal(rows, by1, keys[i][1]), by2, keys[i][2]),
                    col))]

\* df.sort_values(col, ascending=False) on a column of whole numbers: the
\* sort is not stable, rows with equal values come out in any order.
sort_values_descending(rows, col) ==
    {[k \in 1..Len(rows) |-> rows[p[k]]] :
        p \in {q \in RowOrders(Len(rows)) :
                  \A k \in 1..(Len(rows) - 1) :
                      rows[q[k]][col] >= rows[q[k + 1]][col]}}

\* The code of a label in pd.Categorical(labels, categories=month_order,
\* ordered=True): its position in month_order; a label that is no category
\* becomes NaN, which sort_values places last (13 here).
Month_Sorted(label) ==
    IF \E c \in 1..Len(month_order) : month_order[c] = label
    THEN CHOOSE c \in 1..Len(month_order) : month_order[c] = label
    ELSE Len(month_order) + 1

\* df.sort_values('Month_Sorted'): ascending category codes; rows of the
\* same category, and rows with NaN, in any order.
sort_by_month(rows) ==
    {[k \in 1..Len(rows) |-> rows[p[k]]] :
        p \in {q \in RowOrders(Len(rows)) :
                  \A k \in 1..(Len(rows) - 1) :
                      Month_Sorted(rows[q[k]]["Month"])
                          <= Month_Sorted(rows[q[k + 1]]["Month"])}}

\* round(x) of a finite float: the nearest whole number, ties to even.
round_half_even(x) ==
    LET q == Abs(x.num) \div x.den
        r == Abs(x.num) % x.den
        m == IF 2 * r > x.den \/ (2 * r = x.den /\ q % 2 = 1) THEN q + 1 ELSE q
    IN  Sign(x.num) * m

\* format_indian_money of a float: NaN gives the zero token, int(round(x))
\* of an infinite value raises OverflowError.
format_money_float(x) ==
    IF x.kind = "nan" THEN format_indian_money(NaN, "full")
    ELSE IF x.kind = "inf" THEN OverflowError
    ELSE format_indian_money(Num(round_half_even(x)), "full")

-----------------------------------------------------------------------------
(* Tab 1, the monthly sales overview, src/new.py lines 87-192.             *)

NoTab1 ==
    [selected_year |-> ALL, selected_brand |-> ALL, selected_month |-> ALL,
     filtered_data |-> <<>>, total_sales |-> 0, total_bills |-> 0,
     avg_bill_value |-> Float(0), avg_bill_text |-> NotCalled,
     total_outlets |-> 0, salon_sales |-> <<>>, trend_shown |-> FALSE,
     monthly_sales |-> <<>>]

\* Mutant of filter_sales: the brand selection is not applied.
filter_sales_anyBrand(rows, selected_year, selected_brand, selected_mon) ==
    LET by_year == IF selected_year # ALL
                   THEN where_equal(rows, "Year", selected_year) ELSE rows
    IN  IF selected_mon # ALL
        THEN where_equal(by_year, "Month", selected_mon) ELSE by_year

\* filtered_data: the rows of the selected year, brand and month
filter_sales(rows, selected_year, selected_brand, selected_mon) ==
    LET by_year == IF selected_year # ALL
                   THEN where_equal(rows, "Year", selected_year) ELSE rows
        by_brand == IF selected_brand # ALL
                    THEN where_equal(by_year, "BRAND", selected_brand) ELSE by_year
    IN  IF selected_mon # ALL
        THEN where_equal(by_brand, "Month", selected_mon) ELSE by_brand

\* total_sales / total_bills if total_bills > 0 else 0
avg_bill_value(total_sales, total_bills) ==
    IF total_bills > 0 THEN float_div(Float(total_sales), Float(total_bills))
    ELSE Float(0)

\* The whole tab: the three filters, the four metrics, the sales by outlet
\* and, when every month is shown, the monthly sales trend.
Tab1Overview ==
    /\ view = "tab1"
    /\ \E selected_year \in unique(sales_data, "Year"),
          selected_brand \in {ALL} \cup unique(sales_data, "BRAND"),
          selected_mon \in {ALL} \cup unique(sales_data, "Month") :
          LET filtered_data == filter_sales(sales_data, selected_year,
                                            selected_brand, selected_mon)
              total_sales == series_sum(filtered_data, "MTD_SALES")
              total_bills == series_sum(filtered_data, "MTD_BILLS")
              avg == avg_bill_value(total_sales, total_bills)
          IN  \E salon_sales \in sort_values_descending(
                                     groupby_sum(filtered_data, "SALON_NAMES", "MTD_SALES"),
                                     "MTD_SALES"),
                 monthly_sales \in
                     IF selected_mon = ALL
                     THEN sort_by_month(groupby2_sum(filtered_data, "Month", "Year",
                                                     "MTD_SALES"))
                     ELSE {<<>>} :
                 tab1' = [selected_year |-> selected_year,
                          selected_brand |-> selected_brand,
                          selected_month |-> selected_mon,
                          filtered_data |-> filtered_data,
                          total_sales |-> total_sales,
                          total_bills |-> total_bills,
                          avg_bill_value |-> avg,
                          avg_bill_text |-> format_money_float(avg),
                          total_outlets |-> Cardinality(unique(filtered_data, "SALON_NAMES")),
                          salon_sales |-> salon_sales,
                          trend_shown |-> (selected_mon = ALL),
                          monthly_sales |-> monthly_sales]
    /\ view' = "done"
    /\ UNCHANGED <<sales_data, service_data, tab2, tab3, tab4, dash_raised,
                   fmtVars, normVars, monthVars, tab5Vars, auxVars>>

-----------------------------------------------------------------------------
(* Tab 4, the growth analysis, src/new.py lines 921-1164.                  *)

\* sorted(sales_data['Year'].unique())
sorted_unique(rows, col) == SortedKeys(unique(rows, col))

\* Mutant of merge_inner: a key of the left table without row in the right
\* table is kept, with 0 as its right value.
merge_inner_keepLeft(left, right, key, col) ==
    [k \in 1..Len(left) |->
        (key :> left[k][key]) @@
        ("MTD_SALES_base" :> left[k][col]) @@
        ("MTD_SALES_compare" :>
            IF where_equal(right, key, left[k][key]) = <<>> THEN 0
            ELSE where_equal(right, key, left[k][key])[1][col])]

\* pd.merge(left, right, on=key, suffixes=('_base', '_compare')) of two
\* grouped tables, in each of which a key occurs once: the default join is
\* the inner join, so the result holds the keys that both tables hold, in
\* the order of the left table.
merge_inner(left, right, key, col) ==
    LET both == SelectSeq(left, LAMBDA l : where_equal(right, key, l[key]) # <<>>) IN
    [k \in 1..Len(both) |->
        (key :> both[k][key]) @@
        ("MTD_SALES_base" :> both[k][col]) @@
        ("MTD_SALES_compare" :> where_equal(right, key, both[k][key])[1][col])]

\* growth['Growth_Amount'] = growth['MTD SALES_compare'] - growth['MTD SALES_base']
with_growth_amount(rows) ==
    [k \in 1..Len(rows) |->
        rows[k] @@ ("Growth_Amount" :>
                       rows[k]["MTD_SALES_compare"] - rows[k]["MTD_SALES_base"])]

\* growth['Growth_Percent'] =
\*     ((growth['MTD SALES_compare'] / growth['MTD SALES_base']) - 1) * 100
with_growth_percent(rows) ==
    [k \in 1..Len(rows) |->
        rows[k] @@ ("Growth_Percent" :>
                       growth_percent(Float(rows[k]["MTD_SALES_compare"]),
                                      Float(rows[k]["MTD_SALES_base"])))]

\* a >= b for two floats that are not nan
float_ge(a, b) ==
    LET rank(x) == IF x.kind = "inf" THEN x.num ELSE 0 IN
    IF rank(a) # rank(b) THEN rank(a) > rank(b)
    ELSE IF a.kind = "inf" THEN TRUE
    ELSE a.num * b.den >= b.num * a.den

\* df.sort_values('Growth_Percent', ascending=False): descending values,
\* nan last; the sort is not stable.
sort_growth_descending(rows) ==
    {[k \in 1..Len(rows) |-> rows[p[k]]] :
        p \in {q \in RowOrders(Len(rows)) :
                  \A k \in 1..(Len(rows) - 1) :
                      LET a == rows[q[k]]["Growth_Percent"]
                          b == rows[q[k + 1]]["Growth_Percent"]
                      IN  \/ b.kind = "nan"
                          \/ a.kind # "nan" /\ float_ge(a, b)}}

\* The growth per outlet between two tables of one year each: group both by
\* outlet, join, add the growth columns.
outlet_growth(base_data, compare_data) ==
    with_growth_percent(with_growth_amount(
        merge_inner(groupby_sum(base_data, "SALON_NAMES", "MTD_SALES"),
                    groupby_sum(compare_data, "SALON_NAMES", "MTD_SALES"),
                    "SALON_NAMES", "MTD_SALES")))

\* ((total_compare / total_base) - 1) * 100 on the two sums
overall_growth(total_compare, total_base) ==
    growth_percent(Float(total_compare), Float(total_base))

\* The bars of px.bar(growth, x=key, y='Growth_Percent', text='Growth_Percent'):
\* the raw Growth_Percent value is both the height and the text of a bar.
growth_bars(rows, key) ==
    [k \in 1..Len(rows) |->
        [x |-> rows[k][key], y |-> rows[k]["Growth_Percent"],
         text |-> rows[k]["Growth_Percent"]]]

\* display_growth: every column of growth_data as text
display_growth_of(rows) ==
    [k \in 1..Len(rows) |->
        [Outlet |-> rows[k]["SALON_NAMES"],
         Sales_base |-> format_indian_money(Num(rows[k]["MTD_SALES_base"]), "full"),
         Sales_compare |-> format_indian_money(Num(rows[k]["MTD_SALES_compare"]), "full"),
         Growth_Amount |-> format_indian_money(Num(rows[k]["Growth_Amount"]), "full"),
         Growth_Percent |-> format_percent(rows[k]["Growth_Percent"], 2)]]

\* monthly_growth before the sort: both years grouped by month and joined
month_growth(base_data, compare_data) ==
    with_growth_percent(
        merge_inner(groupby_sum(base_data, "Month", "MTD_SALES"),
                    groupby_sum(compare_data, "Month", "MTD_SALES"),
                    "Month", "MTD_SALES"))

NoTab4 ==
    [total_shown |-> FALSE, total_2023 |-> 0, total_2025 |-> 0,
     two_year_growth |-> Float(0), salon_growth |-> <<>>, salon_growth_bars |-> <<>>,
     comparison_shown |-> FALSE, base_year |-> ALL, compare_year |-> ALL,
     base_by_salon |-> <<>>, compare_by_salon |-> <<>>,
     growth_data |-> <<>>, growth_bars |-> <<>>, display_growth |-> <<>>,
     total_base |-> 0, total_compare |-> 0, overall_growth |-> Float(0),
     overall_text |-> NotCalled, monthly_growth |-> <<>>]

\* years[:-1], the options of the base year selectbox
base_year_options(years) ==
    IF Len(years) >= 2 THEN SeqRange(SubSeq(years, 1, Len(years) - 1)) ELSE {ALL}

\* [y for y in years if y > base_year]
compare_year_options(years, base_year) ==
    IF Len(years) >= 2 THEN {y \in SeqRange(years) : LexLess(base_year, y)} ELSE {ALL}

\* The whole tab up to the month-by-month growth: the total growth from
\* 2023 to 2025 when both years have rows (new.py:927-988), and the
\* comparison of two selected years when there are two years (990-1164).
Tab4Growth ==
    /\ view = "tab4"
    /\ LET years == sorted_unique(sales_data, "Year")
           total_shown == Y2023 \in SeqRange(years) /\ Y2025 \in SeqRange(years)
           data_2023 == where_equal(sales_data, "Year", Y2023)
           data_2025 == where_equal(sales_data, "Year", Y2025)
       IN  \E base_year \in base_year_options(years) :
           \E compare_year \in compare_year_options(years, base_year) :
           LET base_data == where_equal(sales_data, "Year", base_year)
               compare_data == where_equal(sales_data, "Year", compare_year)
               total_base == series_sum(base_data, "MTD_SALES")
               total_compare == series_sum(compare_data, "MTD_SALES")
           IN  \E salon_growth \in
                      IF total_shown
                      THEN sort_growth_descending(outlet_growth(data_2023, data_2025))
                      ELSE {<<>>},
                  growth_data \in
                      sort_growth_descending(outlet_growth(base_data, compare_data)),
                  monthly_growth \in
                      sort_by_month(month_growth(base_data, compare_data)) :
                  tab4' =
                    [total_shown |-> total_shown,
                     total_2023 |-> series_sum(data_2023, "MTD_SALES"),
                     total_2025 |-> series_sum(data_2025, "MTD_SALES"),
                     two_year_growth |->
                         IF total_shown
                         THEN overall_growth(series_sum(data_2025, "MTD_SALES"),
                                             series_sum(data_2023, "MTD_SALES"))
                         ELSE Float(0),
                     salon_growth |-> salon_growth,
                     salon_growth_bars |-> growth_bars(salon_growth, "SALON_NAMES"),
                     comparison_shown |-> Len(years) >= 2,
                     base_year |-> base_year,
                     compare_year |-> compare_year,
                     base_by_salon |->
                         groupby_sum(base_data, "SALON_NAMES", "MTD_SALES"),
                     compare_by_salon |->
                         groupby_sum(compare_data, "SALON_NAMES", "MTD_SALES"),
                     growth_data |-> growth_data,
                     growth_bars |-> growth_bars(growth_data, "SALON_NAMES"),
                     display_growth |-> display_growth_of(growth_data),
                     total_base |-> total_base,
                     total_compare |-> total_compare,
                     overall_growth |->
                         IF Len(years) >= 2
                         THEN overall_growth(total_compare, total_base)
                         ELSE Float(0),
                     overall_text |->
                         IF Len(years) >= 2
                         THEN format_percent(overall_growth(total_compare, total_base), 2)
                         ELSE NotCalled,
                     monthly_growth |-> monthly_growth]
    /\ view' = "done"
    /\ UNCHANGED <<sales_data, service_data, tab1, tab2, tab3, dash_raised,
                   fmtVars, normVars, monthVars, tab5Vars, auxVars>>

-----------------------------------------------------------------------------
(* Tab 2, the outlet comparison, src/new.py lines 194-323.                 *)

\* outlet_yearly: the rows of the outlet grouped by year and month, the
\* month labels replaced through month_mapping.
outlet_yearly_of(outlet_data) ==
    LET grouped == groupby2_sum(outlet_data, "Year", "Month", "MTD_SALES") IN
    [k \in 1..Len(grouped) |->
        [Year |-> grouped[k]["Year"],
         Month |-> replace_value(month_mapping, grouped[k]["Month"]),
         MTD_SALES |-> grouped[k]["MTD_SALES"]]]

\* df.sort_values(['Year', 'Month_Sorted']): by year, then by category
\* code; rows equal in both in any order.
sort_by_year_month(rows) ==
    {[k \in 1..Len(rows) |-> rows[p[k]]] :
        p \in {q \in RowOrders(Len(rows)) :
                  \A k \in 1..(Len(rows) - 1) :
                      LET a == rows[q[k]]
                          b == rows[q[k + 1]]
                      IN  \/ LexLess(a.Year, b.Year)
                          \/ /\ a.Year = b.Year
                             /\ Month_Sorted(a.Month) <= Month_Sorted(b.Month)}}

\* The rows whose month label is one of the categories: the others have
\* NaN as Month_Sorted and pivot_table drops them.
categorized(rows) ==
    SelectSeq(rows, LAMBDA r : Month_Sorted(r.Month) <= Len(month_order))

\* The mean of MTD SALES over the rows of a year and month, NaN without row
\* (pivot_table aggregates with the mean).
pivot_mean(rows, year, mon) ==
    LET cell == SelectSeq(rows, LAMBDA r : r.Year = year /\ r.Month = mon) IN
    IF cell = <<>> THEN NAN
    ELSE Fin(series_sum(cell, "MTD_SALES"), Len(cell))

\* The months of the pivot table, in the order of the categories.
pivot_months(rows) ==
    SelectSeq(month_order, LAMBDA m : \E k \in 1..Len(rows) : rows[k].Month = m)

\* pivot_data: one row per month, one cell per year of the table
pivot_table_of(outlet_yearly, years) ==
    LET rows == categorized(outlet_yearly)
        months == pivot_months(rows)
    IN  [m \in 1..Len(months) |->
            [Month |-> months[m],
             sales |-> [i \in 1..Len(years) |-> pivot_mean(rows, years[i], months[m])]]]

\* The column 'Growth {prev_year} to {current_year}' for i in
\* range(1, len(years)): the growth of every month, formatted f"{x:.2f}%".
yoy_growth_columns(pivot, years) ==
    [i \in 1..(Len(years) - 1) |->
        [From |-> years[i], To |-> years[i + 1],
         values |-> [m \in 1..Len(pivot) |->
            format_percent(growth_percent(pivot[m].sales[i + 1], pivot[m].sales[i]), 2)]]]

\* pivot_data[latest_year] * 1.10, formatted
projected_growth(pivot, years) ==
    [m \in 1..Len(pivot) |->
        format_money_float(float_mul(pivot[m].sales[Len(years)], Fin(11, 10)))]

NoTab2 ==
    [selected_outlet |-> ALL, outlet_yearly |-> <<>>, growth_section |-> FALSE,
     years |-> <<>>, pivot_data |-> <<>>, growth_cols |-> <<>>,
     projected |-> <<>>, notice |-> "none"]

\* The whole tab: the outlet, its months by year, and the year-over-year
\* growth table when the outlet has rows in more than one year.
Tab2Comparison ==
    /\ view = "tab2"
    /\ \E selected_outlet \in unique(sales_data, "SALON_NAMES") :
          LET outlet_data == where_equal(sales_data, "SALON_NAMES", selected_outlet)
              yearly == outlet_yearly_of(outlet_data)
              growth_section == Cardinality(unique(yearly, "Year")) > 1
              years == sorted_unique(categorized(yearly), "Year")
              pivot == pivot_table_of(yearly, years)
              shown == growth_section /\ Len(years) > 1
          IN  \E outlet_yearly \in sort_by_year_month(yearly) :
                 tab2' = [selected_outlet |-> selected_outlet,
                          outlet_yearly |-> outlet_yearly,
                          growth_section |-> growth_section,
                          years |-> IF growth_section THEN years ELSE <<>>,
                          pivot_data |-> IF growth_section THEN pivot ELSE <<>>,
                          growth_cols |-> IF shown THEN yoy_growth_columns(pivot, years)
                                          ELSE <<>>,
                          projected |-> IF shown THEN projected_growth(pivot, years)
                                        ELSE <<>>,
                          notice |-> IF growth_section /\ ~shown
                                     THEN "only one year" ELSE "none"]
    /\ view' = "done"
    /\ UNCHANGED <<sales_data, service_data, tab1, tab3, tab4, dash_raised,
                   fmtVars, normVars, monthVars, tab5Vars, auxVars>>

-----------------------------------------------------------------------------
(* Tab 3, the service analysis of the processed service table,             *)
(* src/new.py lines 531-877: the category metrics, the sales by center and *)
(* the growth of the centers from year to year.                            *)

TOTAL_OPTION == <<"T", "o", "t", "a", "l">>
T_HAIR == <<"H", "a", "i", "r">>
T_SKIN == <<"S", "k", "i", "n">>
T_ADYAR == <<"A", "d", "y", "a", "r">>
T_TNAGAR == <<"T", " ", "N", "a", "g", "a", "r">>
NOT_AVAILABLE == <<"N", "/", "A">>

\* service_name_mapping as its key/value pairs
service_name_mapping ==
    <<<<T_HAIR, <<"H", "a", "i", "r", " ", "S", "e", "r", "v", "i", "c", "e", "s">>>>,
      <<T_SKIN, <<"S", "k", "i", "n", " ", "C", "a", "r", "e">>>>,
      <<<<"S", "P", "A">>, <<"S", "P", "A", " ", "&", " ", "M", "a", "s", "s", "a", "g", "e">>>>,
      <<<<"O", "t", "h", "e", "r", " ", "S", "e", "r", "v", "i", "c", "e", "s">>, <<"O", "t", "h", "e", "r", " ", "S", "e", "r", "v", "i", "c", "e", "s">>>>,
      <<<<"P", "r", "o", "d", "u", "c", "t">>, <<"P", "r", "o", "d", "u", "c", "t", "s">>>>>>

\* breakdown_data: the rows of the selected year (or of all years), center
\* and service type
breakdown_of(rows, selected_breakdown_year, selected_center, selected_item_category) ==
    LET by_year == IF selected_breakdown_year = TOTAL_OPTION THEN rows
                   ELSE where_equal(rows, "Year", selected_breakdown_year)
        by_center == IF selected_center # ALL
                     THEN where_equal(by_year, "Center_Name", selected_center)
                     ELSE by_year
    IN  IF selected_item_category # ALL
        THEN where_equal(by_center, "Service_Type", selected_item_category)
        ELSE by_center

\* df.groupby(by).agg({'Total_Sales': 'sum', 'Transaction_Count': 'sum'})
\* followed by
\* df['Average_Transaction'] = df['Total_Sales'] / df['Transaction_Count']
average_transaction(rows, by) ==
    LET keys == SortedKeys(unique(rows, by)) IN
    [i \in 1..Len(keys) |->
        LET group == where_equal(rows, by, keys[i])
            Total_Sales == series_sum(group, "Total_Sales")
            Transaction_Count == series_sum(group, "Transaction_Count")
        IN  (by :> keys[i]) @@
            ("Total_Sales" :> Total_Sales) @@
            ("Transaction_Count" :> Transaction_Count) @@
            ("Average_Transaction" :>
                float_div(Float(Total_Sales), Float(Transaction_Count)))]

\* The displayed category_details: the service type renamed, the total and
\* the average formatted with format_indian_money.
category_display(details) ==
    [k \in 1..Len(details) |->
        [Service_Category |-> replace_value(service_name_mapping,
                                            details[k]["Service_Type"]),
         Total_Sales |-> format_indian_money(Num(details[k]["Total_Sales"]), "lakhs"),
         Transaction_Count |-> details[k]["Transaction_Count"],
         Average_Transaction |-> format_money_float(details[k]["Average_Transaction"])]]

\* center_pivot: one row per center, one cell per year holding the sales of
\* the center in the year, NaN where the center has no row in the year.
center_pivot_of(yearly_center_sales, years) ==
    LET centers == SortedKeys(unique(yearly_center_sales, "Center_Name")) IN
    [c \in 1..Len(centers) |->
        [Center_Name |-> centers[c],
         sales |-> [i \in 1..Len(years) |->
            LET cell == where_equal(
                            where_equal(yearly_center_sales, "Center_Name", centers[c]),
                            "Year", years[i])
            IN  IF cell = <<>> THEN NAN ELSE Float(cell[1]["Total_Sales"])]]]

\* The growth of one pair of years for one center: a previous value that
\* is not positive (zero, or NaN for a missing year) gives float('inf').
center_growth_pct(prev_sales, current_sales) ==
    IF float_gt0(prev_sales) THEN growth_percent(current_sales, prev_sales)
    ELSE INF

\* Mutant of center_growth_row: the loop starts at range(2, len(years)).
center_growth_row_skipFirstPair(pivot_row, years) ==
    [Center_Name |-> pivot_row.Center_Name,
     growth |-> [i \in 1..(Len(years) - 2) |->
        [From |-> years[i + 1], To |-> years[i + 2],
         value |-> center_growth_pct(pivot_row.sales[i + 1], pivot_row.sales[i + 2])]]]

\* center_row: for i in range(1, len(years)) the column
\* 'Growth {years[i-1]} to {years[i]}'
center_growth_row(pivot_row, years) ==
    [Center_Name |-> pivot_row.Center_Name,
     growth |-> [i \in 1..(Len(years) - 1) |->
        [From |-> years[i], To |-> years[i + 1],
         value |-> center_growth_pct(pivot_row.sales[i], pivot_row.sales[i + 1])]]]

\* growth_df before the sort
center_growth_df(pivot, years) ==
    [c \in 1..Len(pivot) |-> center_growth_row(pivot[c], years)]

\* growth_df.sort_values(latest_growth_col, ascending=False): descending
\* values of the last growth column, nan last; the sort is not stable.
sort_latest_growth(rows) ==
    {[k \in 1..Len(rows) |-> rows[p[k]]] :
        p \in {q \in RowOrders(Len(rows)) :
                  \A k \in 1..(Len(rows) - 1) :
                      LET a == rows[q[k]].growth[Len(rows[q[k]].growth)].value
                          b == rows[q[k + 1]].growth[Len(rows[q[k + 1]].growth)].value
                      IN  \/ b.kind = "nan"
                          \/ a.kind # "nan" /\ float_ge(a, b)}}

\* pd.melt(growth_df, id_vars=['Center Name'], value_vars=growth_cols) as
\* drawn by px.bar: one bar per growth column and center, the raw growth
\* value as height and text.
RECURSIVE melted_growth(_, _)
melted_growth(growth_df, i) ==
    IF growth_df = <<>> \/ i > Len(growth_df[1].growth) THEN <<>>
    ELSE [c \in 1..Len(growth_df) |->
             [Center_Name |-> growth_df[c].Center_Name,
              From |-> growth_df[c].growth[i].From,
              To |-> growth_df[c].growth[i].To,
              Growth |-> growth_df[c].growth[i].value]]
         \o melted_growth(growth_df, i + 1)

\* f"{x:.2f}%" if not pd.isna(x) and not np.isinf(x) else "N/A"
display_center_growth_cell(x) ==
    IF x.kind = "finite" THEN format_percent(x, 2) ELSE NOT_AVAILABLE

display_center_growth(growth_df) ==
    [c \in 1..Len(growth_df) |->
        [Center_Name |-> growth_df[c].Center_Name,
         growth |-> [i \in 1..Len(growth_df[c].growth) |->
                        display_center_growth_cell(growth_df[c].growth[i].value)]]]

NoTab3 ==
    [selected_breakdown_year |-> TOTAL_OPTION, selected_center |-> ALL,
     selected_item_category |-> ALL, breakdown_data |-> <<>>,
     category_details |-> <<>>, category_table |-> <<>>, center_sales |-> <<>>,
     growth_shown |-> FALSE, years |-> <<>>, center_pivot |-> <<>>,
     growth_df |-> <<>>, growth_chart |-> <<>>, display_growth |-> <<>>]

\* The breakdown filters and the service category metrics (new.py:603-733).
\* format_indian_money of an infinite average raises OverflowError, which
\* ends the script.
Tab3CategoryMetrics ==
    /\ view = "tab3"
    /\ \E selected_breakdown_year \in {TOTAL_OPTION} \cup unique(service_data, "Year"),
          selected_center \in {ALL} \cup unique(service_data, "Center_Name"),
          selected_item_category \in {ALL} \cup unique(service_data, "Service_Type") :
          LET breakdown_data == breakdown_of(service_data, selected_breakdown_year,
                                             selected_center, selected_item_category)
              category_details == average_transaction(breakdown_data, "Service_Type")
              shown == category_display(category_details)
              overflow == \E k \in 1..Len(shown) :
                              shown[k].Average_Transaction = OverflowError
          IN  /\ tab3' = [tab3 EXCEPT
                             !.selected_breakdown_year = selected_breakdown_year,
                             !.selected_center = selected_center,
                             !.selected_item_category = selected_item_category,
                             !.breakdown_data = breakdown_data,
                             !.category_details = category_details,
                             !.category_table = IF overflow THEN <<>> ELSE shown]
              /\ dash_raised' = IF overflow THEN "OverflowError" ELSE "none"
              /\ view' = IF overflow THEN "raised" ELSE "tab3_centers"
    /\ UNCHANGED <<sales_data, service_data, tab1, tab2, tab4,
                   fmtVars, normVars, monthVars, tab5Vars, auxVars>>

\* The sales by center and the growth of the centers (new.py:735-877).  The
\* growth table is formatted, but display_growth[year] is then read for
\* every year and growth_df has no year column: KeyError.
Tab3CenterAnalysis ==
    /\ view = "tab3_centers"
    /\ LET years == sorted_unique(service_data, "Year")
           growth_shown == Len(years) > 1
           pivot == center_pivot_of(
                        groupby2_sum(service_data, "Center_Name", "Year", "Total_Sales"),
                        years)
       IN  \E center_sales \in sort_values_descending(
                                   average_transaction(tab3.breakdown_data, "Center_Name"),
                                   "Total_Sales"),
              growth_df \in IF growth_shown
                            THEN sort_latest_growth(center_growth_df(pivot, years))
                            ELSE {<<>>} :
              /\ tab3' = [tab3 EXCEPT
                             !.center_sales = center_sales,
                             !.growth_shown = growth_shown,
                             !.years = years,
                             !.center_pivot = IF growth_shown THEN pivot ELSE <<>>,
                             !.growth_df = growth_df,
                             !.growth_chart = melted_growth(growth_df, 1),
                             !.display_growth = display_center_growth(growth_df)]
              /\ dash_raised' = IF growth_shown THEN "KeyError" ELSE "none"
              /\ view' = IF growth_shown THEN "raised" ELSE "done"
    /\ UNCHANGED <<sales_data, service_data, tab1, tab2, tab4,
                   fmtVars, normVars, monthVars, tab5Vars, auxVars>>

-----------------------------------------------------------------------------
(* The category breakdown of tab 3, src/new.py lines 372-530: the sales by *)
(* business unit and the top categories of the category file.              *)

TOP_CATEGORIES == 15

CategoryRow(year, unit, category, sales) ==
    [Year |-> year, Business_Unit |-> unit, Item_Category |-> category,
     Total_Sales |-> sales]

\* Removing the k-th element of a sequence
WithoutIndex(s, k) == SubSeq(s, 1, k - 1) \o SubSeq(s, k + 1, Len(s))

\* breakdown_data.sort_values('Total_Sales', ascending=False): all the
\* orders of the rows with descending values; the sort is not stable, rows
\* with equal values come out in any order.
RECURSIVE sort_rows_descending(_, _)
sort_rows_descending(rows, col) ==
    IF rows = <<>> THEN {<<>>}
    ELSE UNION {{<<rows[k]>> \o rest :
                    rest \in sort_rows_descending(WithoutIndex(rows, k), col)} :
                k \in {i \in 1..Len(rows) : \A j \in 1..Len(rows) : rows[i][col] >= rows[j][col]}}

\* df.head(n) of a sequence of rows
head_rows(rows, n) == SubSeq(rows, 1, IF Len(rows) < n THEN Len(rows) ELSE n)

\* The options of the year selectbox: "Total" and the years, when the file
\* has more than one year; no selectbox otherwise, all rows are used.
breakdown_year_options(data) ==
    IF Cardinality(unique(data, "Year")) > 1
    THEN {TOTAL_OPTION} \cup unique(data, "Year")
    ELSE {TOTAL_OPTION}

\* breakdown_data: a copy of the file, or its rows of the selected year
breakdown_rows(data, selected_year) ==
    IF selected_year = TOTAL_OPTION THEN data
    ELSE where_equal(data, "Year", selected_year)

\* The rows of top_categories with the formatted_sales column
with_formatted_sales(rows) ==
    [k \in 1..Len(rows) |->
        rows[k] @@ ("formatted_sales" :>
                       Tail(format_indian_money(Num(rows[k]["Total_Sales"]), "full")))]

NoBreakdown ==
    [selected_breakdown_year |-> ALL, breakdown_data |-> <<>>,
     business_unit_sales |-> <<>>, top_categories |-> <<>>]

\* The breakdown charts: the year selection, the sales by business unit and
\* the first 15 rows of the breakdown in descending order of sales.
BreakdownCharts ==
    /\ breakdown = NoBreakdown
    /\ category_data # <<>>
    /\ \E selected_year \in breakdown_year_options(category_data) :
          LET breakdown_data == breakdown_rows(category_data, selected_year) IN
          \E sorted \in sort_rows_descending(breakdown_data, "Total_Sales") :
              breakdown' =
                  [selected_breakdown_year |-> selected_year,
                   breakdown_data |-> breakdown_data,
                   business_unit_sales |->
                       groupby_sum(breakdown_data, "Business_Unit", "Total_Sales"),
                   top_categories |->
                       with_formatted_sales(head_rows(sorted, TOP_CATEGORIES))]
    /\ UNCHANGED <<category_data, cacheVars, growthVars, eventVars,
                   fmtVars, normVars, monthVars, tab5Vars, dashVars>>

\* The category files of the model.  MaxCategories exceeds TOP_CATEGORIES,
\* so that the truncation drops rows.
MaxCategories == 16

BusinessUnits == <<<<"H", "a", "i", "r">>, <<"S", "k", "i", "n">>, <<"S", "p", "a">>>>

CategoryName(k) == <<"C">> \o NatDigits(k)

BusinessUnitOf(k) == BusinessUnits[(k % Len(BusinessUnits)) + 1]

\* Three ways of giving the categories 1..n sales that all differ
SalesPatterns == {"rising", "falling", "mixed"}

PatternSales(pattern, k, n) ==
    CASE pattern = "rising" -> k
      [] pattern = "falling" -> n + 1 - k
      [] OTHER -> (7 * k) % 19

\* One row for each of n categories, sales by a pattern, in one year
FlatCategoryFile(n, pattern) ==
    [k \in 1..n |->
        CategoryRow(Y2024, BusinessUnitOf(k), CategoryName(k), PatternSales(pattern, k, n))]

\* At most MaxTied categories with sales of 1 or 2: rows of equal sales
MaxTied == 4

TiedCategoryFiles ==
    UNION {{[k \in 1..n |->
                CategoryRow(Y2024, BusinessUnitOf(k), CategoryName(k), sales[k])] :
            sales \in [1..n -> 1..2]} : n \in 1..MaxTied}

\* One row for each of n categories in each of the years 2023 and 2024
TwoYearCategoryFile(n) ==
    [k \in 1..(2 * n) |->
        IF k <= n
        THEN CategoryRow(Y2023, BusinessUnitOf(k), CategoryName(k), k)
        ELSE CategoryRow(Y2024, BusinessUnitOf(k - n), CategoryName(k - n), 2 * k)]

CategoryFiles ==
    {FlatCategoryFile(n, p) : n \in 1..MaxCategories, p \in SalesPatterns}
        \cup TiedCategoryFiles
        \cup {TwoYearCategoryFile(n) : n \in 1..(MaxCategories \div 2)}

-----------------------------------------------------------------------------
(* The service tables: every sequence of at most MaxServiceRows rows drawn *)
(* from ServiceRows.                                                       *)

ServiceRow(center, type, year, sales, count) ==
    [Center_Name |-> center, Service_Type |-> type, Year |-> year,
     Total_Sales |-> sales, Transaction_Count |-> count]

ServiceRows ==
    {ServiceRow(T_ADYAR, T_HAIR, Y2023, 100, 2),
     ServiceRow(T_ADYAR, T_HAIR, Y2024, 150, 3),
     ServiceRow(T_ADYAR, T_SKIN, Y2024, 50, 0),
     ServiceRow(T_TNAGAR, T_SKIN, Y2023, 0, 0),
     ServiceRow(T_TNAGAR, T_HAIR, Y2024, 500, 5),
     ServiceRow(T_TNAGAR, T_SKIN, Y2024, 0, 0),
     ServiceRow(T_TNAGAR, T_HAIR, Y2025, 0, 1)}

MaxServiceRows == 3

ServiceTables == UNION {[1..n -> ServiceRows] : n \in 1..MaxServiceRows}

-----------------------------------------------------------------------------
(* The sales tables the dashboard is run on: every sequence of at most     *)
(* MaxSalesRows rows drawn from SalesRows.  The rows hold an outlet and    *)
(* month twice, abbreviated month labels, zero sales and zero bills.       *)

T_NATURALS == <<"N", "a", "t", "u", "r", "a", "l", "s">>

SalesRow(salon, year, mon, brand, sales, bills) ==
    [SALON_NAMES |-> salon, Year |-> year, Month |-> mon, BRAND |-> brand,
     MTD_SALES |-> sales, MTD_BILLS |-> bills]

SalesRows ==
    {SalesRow(T_SPA, Y2023, JANUARY, T_LOREAL, 100, 2),
     SalesRow(T_SPA, Y2023, JANUARY, T_LOREAL, 50, 1),
     SalesRow(T_CUT, Y2023, FEB, T_LOREAL, 0, 0),
     SalesRow(T_CUT, Y2023, MARCH, T_LOREAL, 200, 1),
     SalesRow(T_SPA, Y2024, MARCH, T_LOREAL, 100, 0),
     SalesRow(T_CUT, Y2025, FEBRUARY, T_LOREAL, 500, 4),
     SalesRow(T_CUT, Y2025, JAN, T_NATURALS, 0, 0),
     SalesRow(T_SPA, Y2025, JANUARY, T_LOREAL, 150, 3)}

MaxSalesRows == 3

SalesTables == UNION {[1..n -> SalesRows] : n \in 1..MaxSalesRows}


-----------------------------------------------------------------------------
(* The load of the dashboard, src/new.py lines 61-78: load_data under      *)
(* st.cache_data, called at the top of every run of the script, and the    *)
(* store it reads.  The cache of a function without arguments has one      *)
(* entry, made by the first call and returned by every later call.         *)

\* The tables the processed sales file of the store holds in a session:
\* outlets in 2023 and 2025 followed by one more row.
SessionTables ==
    {t \in SalesTables :
        /\ Len(t) = MaxSalesRows
        /\ \A k \in 1..(Len(t) - 1) :
              t[k] = IF k % 2 = 1
                     THEN SalesRow(T_SPA, Y2023, JANUARY, T_LOREAL, 100, 2)
                     ELSE SalesRow(T_CUT, Y2025, FEBRUARY, T_LOREAL, 500, 4)}

\* The table the sales files of the raw directory are processed into
RawProcessed ==
    <<SalesRow(T_CUT, Y2023, MARCH, T_LOREAL, 200, 1),
      SalesRow(T_SPA, Y2024, MARCH, T_LOREAL, 100, 0)>>

\* The number of times the store is written in a session
MaxChanges == 2

\* The cache before the first call of load_data
NoEntry == [filled |-> FALSE, sales_data |-> <<>>, service_data |-> <<>>]

NoLoad ==
    [loaded |-> FALSE, returned |-> <<>>, stored |-> <<>>, modified |-> 0,
     cached |-> FALSE]

\* A store with the processed sales file, and one without it
StoreWith(processed, raw, modified) ==
    [exists |-> TRUE, processed |-> processed, raw |-> raw, modified |-> modified]

StoreWithout(raw, modified) ==
    [exists |-> FALSE, processed |-> <<>>, raw |-> raw, modified |-> modified]

\* check_file_exists_in_s3 / read_csv_from_s3 of the processed sales file
\* and, without the file, the processing of the raw files.
read_sales_data(store) ==
    IF store.exists THEN store.processed ELSE store.raw

\* Mutant of cached_load_data: every call reads the store.
cached_load_data_fresh(entry, store) ==
    [filled |-> TRUE, sales_data |-> read_sales_data(store), service_data |-> <<>>]

\* load_data() under st.cache_data: the entry when there is one, the body
\* of the function otherwise.  The service table of the session is empty.
cached_load_data(entry, store) ==
    IF entry.filled THEN entry
    ELSE [filled |-> TRUE, sales_data |-> read_sales_data(store), service_data |-> <<>>]

\* A run of the script up to the tabs: the load of the two tables, and the
\* tab that is looked at in this run.
ScriptRun ==
    /\ view \in {"idle", "done", "raised"}
    /\ LET value == cached_load_data(load_cache, s3_store) IN
          /\ load_cache' = value
          /\ sales_data' = value.sales_data
          /\ service_data' = value.service_data
          /\ script_load' =
                [loaded |-> TRUE,
                 returned |-> value.sales_data,
                 stored |-> read_sales_data(s3_store),
                 modified |-> s3_store.modified,
                 cached |-> load_cache.filled]
    /\ view' \in {"tab1", "tab2", "tab4"}
    /\ tab1' = NoTab1
    /\ tab2' = NoTab2
    /\ tab3' = NoTab3
    /\ tab4' = NoTab4
    /\ dash_raised' = "none"
    /\ UNCHANGED <<s3_store, fmtVars, normVars, monthVars, tab5Vars,
                   breakdownVars, growthVars, eventVars>>

\* The processed sales file of the store is written or removed; the store
\* marks the modification.
SourceChange ==
    /\ s3_store.modified < MaxChanges
    /\ \E changed \in {StoreWithout(s3_store.raw, s3_store.modified + 1)}
                        \cup {StoreWith(t, s3_store.raw, s3_store.modified + 1) :
                                 t \in SessionTables} :
          /\ read_sales_data(changed) # read_sales_data(s3_store)
          /\ s3_store' = changed
    /\ UNCHANGED <<load_cache, script_load, dashVars,
                   fmtVars, normVars, monthVars, tab5Vars, breakdownVars, growthVars,
                   eventVars>>

-----------------------------------------------------------------------------
(* The growth computations of the dashboard side by side, on one pair of   *)
(* sales: the Growth_Percent of the outlets and months of tab 4            *)
(* (src/new.py 1016-1020, 1100-1101), the growth_pct of the centers of     *)
(* tab 3 (817-821), the growth of the annotations of tab 5 (1640-1646) and *)
(* its growth columns (1680-1686).                                         *)

\* The sales of the two periods are whole numbers up to MaxGrowthSales
MaxGrowthSales == 9

NoGrowth == [computed |-> FALSE, value |-> NAN]

Growth(value) == [computed |-> TRUE, value |-> value]

NotCompared == [outlet |-> NoGrowth, center |-> NoGrowth,
                annotation |-> NoGrowth, salon_column |-> NoGrowth,
                compared |-> FALSE]

\* if prev_val > 0: growth = ((curr_val / prev_val) - 1) * 100; no growth
\* is computed otherwise.
annotation_growth(prev_val, curr_val) ==
    IF prev_val > 0 THEN Growth(growth_percent(Float(curr_val), Float(prev_val)))
    ELSE NoGrowth

\* The four computations on the sales of a base and a compare period
CompareGrowth ==
    /\ ~growth_out.compared
    /\ LET base == growth_pair.base
           compare == growth_pair.compare
           joined == << [SALON_NAMES |-> T_SPA, MTD_SALES_base |-> base,
                         MTD_SALES_compare |-> compare] >>
           frame == [columns |-> <<Y2024, Y2025>>,
                     rows |-> << [SALONS |-> T_SPA,
                                  vals |-> <<Num(base), Num(compare)>>] >>]
       IN  growth_out' =
               [outlet |-> Growth(with_growth_percent(joined)[1]["Growth_Percent"]),
                center |-> Growth(center_growth_pct(Float(base), Float(compare))),
                annotation |-> annotation_growth(base, compare),
                salon_column |->
                    Growth(row_growth(frame, frame.rows[1], Y2024, Y2025).value),
                compared |-> TRUE]
    /\ UNCHANGED <<growth_pair, fmtVars, normVars, monthVars, tab5Vars, dashVars,
                   breakdownVars, cacheVars, eventVars>>

-----------------------------------------------------------------------------
(* The event analysis: tab 6 of the dashboard, src/new.py lines 1818-1966, *)
(* on the uploaded service sales and leaves, and the event page of         *)
(* src/service.py lines 46-95 on the service sales alone.                  *)

Date(y, m, d) == [year |-> y, month |-> m, day |-> d]

\* pd.to_datetime of a date and a time of day
Timestamp(date, minute) == [date |-> date, minute |-> minute]

IsLeapYear(y) == (y % 4 = 0 /\ y % 100 # 0) \/ y % 400 = 0

DaysInMonth(y, m) ==
    CASE m \in {4, 6, 9, 11} -> 30
      [] m = 2 -> IF IsLeapYear(y) THEN 29 ELSE 28
      [] OTHER -> 31

RECURSIVE DaysBeforeMonth(_, _)
DaysBeforeMonth(y, m) ==
    IF m = 1 THEN 0 ELSE DaysBeforeMonth(y, m - 1) + DaysInMonth(y, m - 1)

RECURSIVE DaysBeforeYear(_)
DaysBeforeYear(y) ==
    IF y <= 2023 THEN 0
    ELSE DaysBeforeYear(y - 1) + (IF IsLeapYear(y - 1) THEN 366 ELSE 365)

\* The days from the first day of 2023 to a date
DayNumber(date) ==
    DaysBeforeYear(date.year) + DaysBeforeMonth(date.year, date.month) + date.day - 1

\* A day in minutes
Days(n) == n * 24 * 60

\* The minutes of a timestamp since the start of 2023
Minutes(ts) == Days(DayNumber(ts.date)) + ts.minute

\* important_dates, in the order of the dictionary
important_dates ==
    << [event |-> "New Year", date |-> Date(2024, 1, 1)],
       [event |-> "Pongal", date |-> Date(2024, 1, 14)],
       [event |-> "Republic Day", date |-> Date(2024, 1, 26)],
       [event |-> "Good Friday", date |-> Date(2024, 3, 29)],
       [event |-> "Eid al-Fitr", date |-> Date(2024, 4, 10)],
       [event |-> "Tamil New Year", date |-> Date(2024, 4, 14)],
       [event |-> "Eid al-Adha", date |-> Date(2024, 6, 16)],
       [event |-> "Independence Day", date |-> Date(2024, 8, 15)],
       [event |-> "Diwali", date |-> Date(2024, 11, 1)],
       [event |-> "Christmas", date |-> Date(2024, 12, 25)],
       [event |-> "Exam Start", date |-> Date(2024, 3, 1)],
       [event |-> "Exam End", date |-> Date(2024, 4, 15)],
       [event |-> "Wedding Peak 1", date |-> Date(2024, 2, 15)],
       [event |-> "Wedding Peak 2", date |-> Date(2024, 11, 25)] >>

EVENT_YEAR == 2024

EVENT_DAYS == 7

\* pd.to_datetime(important_dates[selected_event]): midnight of the date
event_date_of(selected_event) ==
    Timestamp((CHOOSE e \in SeqRange(important_dates) : e.event = selected_event).date, 0)

\* (col >= event_date - pd.Timedelta(days=7)) &
\* (col <= event_date + pd.Timedelta(days=7)) on a column of timestamps
in_event_window(ts, event_date) ==
    /\ Minutes(ts) >= Minutes(event_date) - Days(EVENT_DAYS)
    /\ Minutes(ts) <= Minutes(event_date) + Days(EVENT_DAYS)

\* The rows of a table whose date column is in the window of the event
event_rows(rows, col, event_date) ==
    SelectSeq(rows, LAMBDA r : in_event_window(r[col], event_date))

\* sales_data[sales_data['Year'] == 2024], Year being the year of the date
rows_of_event_year(rows, col) ==
    SelectSeq(rows, LAMBDA r : r[col].date.year = EVENT_YEAR)

NONE_CENTER == <<"#None">>

\* The options of the center selectbox: the centers of the rows of 2024;
\* a selectbox without options returns None.
center_options(filtered) ==
    IF filtered = <<>> THEN {NONE_CENTER} ELSE unique(filtered, "Center_Name")

NoEventView ==
    [shown |-> FALSE, selected_event |-> "", selected_center |-> NONE_CENTER,
     filtered_sales |-> <<>>, event_sales |-> <<>>, event_leaves |-> <<>>,
     total_sales |-> 0, total_leaves_sales |-> 0]

\* Tab 6 after the two uploads: nothing is analysed unless both tables
\* have rows; then the sales of 2024 in the window of the selected event
\* for the selected center, and the leaves in the window.
Tab6EventAnalysis ==
    /\ event_in.app = "new.py"
    /\ event_out = NoEventView
    /\ event_in.sales_data # <<>> /\ event_in.leaves_data # <<>>
    /\ LET filtered_sales == rows_of_event_year(event_in.sales_data, "Sale_Date") IN
       \E e \in SeqRange(important_dates) :
       \E selected_center \in center_options(filtered_sales) :
          LET event_date == event_date_of(e.event)
              event_sales ==
                  where_equal(event_rows(filtered_sales, "Sale_Date", event_date),
                              "Center_Name", selected_center)
              event_leaves == event_rows(event_in.leaves_data, "Date", event_date)
          IN  event_out' =
                  [shown |-> TRUE, selected_event |-> e.event,
                   selected_center |-> selected_center,
                   filtered_sales |-> filtered_sales,
                   event_sales |-> event_sales,
                   event_leaves |-> event_leaves,
                   total_sales |-> series_sum(event_sales, "Sales_Collected"),
                   total_leaves_sales |-> series_sum(event_leaves, "MTD_Sale")]
    /\ UNCHANGED <<event_in, fmtVars, normVars, monthVars, tab5Vars, dashVars,
                   breakdownVars, cacheVars, growthVars>>

\* The event page of service.py after the upload: nothing is analysed
\* unless the table has rows of 2024; then the sales of 2024 in the window
\* of the selected event for the selected center.
ServiceEventAnalysis ==
    /\ event_in.app = "service.py"
    /\ event_out = NoEventView
    /\ LET filtered_data == rows_of_event_year(event_in.sales_data, "Sale_Date") IN
       /\ filtered_data # <<>>
       /\ \E e \in SeqRange(important_dates) :
          \E selected_center \in center_options(filtered_data) :
             LET event_date == event_date_of(e.event)
                 event_data ==
                     where_equal(event_rows(filtered_data, "Sale_Date", event_date),
                                 "Center_Name", selected_center)
             IN  event_out' =
                     [shown |-> TRUE, selected_event |-> e.event,
                      selected_center |-> selected_center,
                      filtered_sales |-> filtered_data,
                      event_sales |-> event_data,
                      event_leaves |-> <<>>,
                      total_sales |-> series_sum(event_data, "Sales_Collected"),
                      total_leaves_sales |-> 0]
    /\ UNCHANGED <<event_in, fmtVars, normVars, monthVars, tab5Vars, dashVars,
                   breakdownVars, cacheVars, growthVars>>

\* The timestamps of the uploaded rows: the days at the ends of the windows
\* of New Year and Christmas, in 2023, 2024 and 2025, one with a time of day.
UploadedTimestamps ==
    << Timestamp(Date(2023, 12, 25), 0),
       Timestamp(Date(2024, 1, 1), 0),
       Timestamp(Date(2024, 1, 8), 0),
       Timestamp(Date(2024, 1, 8), 630),
       Timestamp(Date(2024, 12, 18), 0),
       Timestamp(Date(2025, 1, 1), 0) >>

UploadedSalesRows ==
    [k \in 1..(2 * Len(UploadedTimestamps)) |->
        [Sale_Date |-> UploadedTimestamps[(k + 1) \div 2],
         Center_Name |-> IF k % 2 = 1 THEN T_SPA ELSE T_CUT,
         Sales_Collected |-> 10 * k]]

UploadedLeavesRows ==
    [k \in 1..Len(UploadedTimestamps) |->
        [Date |-> UploadedTimestamps[k], MTD_Sale |-> k]]

MaxEventRows == 2

MaxLeavesRows == 1

\* The rows of all at the positions of S, in their order
RECURSIVE RowsAt(_, _)
RowsAt(all, S) ==
    IF S = {} THEN <<>>
    ELSE LET k == CHOOSE k \in S : \A j \in S : k <= j
         IN  <<all[k]>> \o RowsAt(all, S \ {k})

\* Every table of at most n of the rows, in the order of the rows
UploadsOf(all, n) ==
    {RowsAt(all, S) : S \in {S \in SUBSET (1..Len(all)) : Cardinality(S) <= n}}

-----------------------------------------------------------------------------
(* Claims about the salon performance loader, verified under SpecTab5.      *)

\* The loop over the selected years has run.
YearsLoaded ==
    \/ pc \in {"loaded", "merged", "charted", "tabled", "summarized", "raised"}
    \/ (pc = "done" /\ selected_years # <<>>)

Warnings == SelectSeq(st_messages, LAMBDA m : m.kind = "warning")

LoadedYears == {all_salon_data[k].year : k \in 1..Len(all_salon_data)}

\* A selected year whose file exists but in which no identifier column can
\* be located.
SchemaFailed(y) ==
    /\ y \in SeqRange(selected_years)
    /\ load_mtd_salon_data(mtd_files[y]).exc = "KeyError"

\* C6: when no identifier column can be located for a source, normalization
\* of that source fails with a schema error that is reported (recorded as a
\* warning), and the failure is not fatal to the rest of the load.
C6_SchemaErrorReported ==
    YearsLoaded =>
        \A y \in SeqRange(mtd_years) :
            SchemaFailed(y) =>
                /\ Len(Warnings) > 0
                /\ \A z \in SeqRange(selected_years) :
                      usable(load_mtd_salon_data(mtd_files[z]).data, selected_month)
                          => z \in LoadedYears

MissingYears == {y \in SeqRange(mtd_years) : mtd_files[y] = MISSING}

MergedSalons == {merged_data.rows[k].SALONS : k \in 1..Len(merged_data.rows)}

\* The identifiers of the rows that the file of year y holds for the month.
SourceSalons(y) ==
    LET sd == load_mtd_salon_data(mtd_files[y]).data IN
    IF usable(sd, selected_month)
    THEN {sd.rows[k].SALONS : k \in 1..Len(sd.rows)}
    ELSE {}

\* The merged table holds the rows of the selected sources that are present.
C10_RowsOfPresentSources ==
    pc = "merged" =>
        MergedSalons = UNION {SourceSalons(y) : y \in SeqRange(selected_years)}

\* C10: loading yearly sources where one file does not exist yields a table
\* containing exactly the rows of the sources that are present, and the
\* loader records the number of skipped sources (one missing file gives a
\* recorded warning count of 1).
C10_SkippedSourcesCounted ==
    pc = "merged" =>
        /\ C10_RowsOfPresentSources
        /\ Len(Warnings) = Cardinality(MissingYears)

-----------------------------------------------------------------------------
(* Claims about the views built from the merged table, under SpecTab5.     *)

\* The script of the tab has gone past the merge.
AfterMerge == pc \in {"charted", "tabled", "summarized", "raised"}

\* A selected year whose file exists but gives no usable table for the
\* selected month: the load failed, or the month is not a column.
MalformedYear(y) ==
    /\ y \in SeqRange(selected_years)
    /\ mtd_files[y] # MISSING
    /\ ~usable(load_mtd_salon_data(mtd_files[y]).data, selected_month)

\* C11: a selected year whose file exists but whose read or normalization
\* fails (an empty table, or a table without the selected month) does not
\* prevent the other years: the merged table, the chart, the growth columns
\* and the summary statistics are produced from the remaining selected
\* years and no exception is raised.
C11_MalformedYearTolerated ==
    (AfterMerge /\ \E y \in SeqRange(mtd_years) : MalformedYear(y)) =>
        /\ raised = "none"
        /\ \A i \in 1..Len(fig.traces) : HasYear(merged_data, fig.traces[i].name)

\* No file of the dataset directory exists.
NoFileExists == \A y \in SeqRange(mtd_years) : mtd_files[y] = MISSING

\* Years were selected and none of them gives a usable table.
NoSourceUsable ==
    /\ selected_years # <<>>
    /\ \A y \in SeqRange(selected_years) :
          ~usable(load_mtd_salon_data(mtd_files[y]).data, selected_month)

\* The tab did nothing but show the given notice.
OnlyNotice(message) ==
    /\ pc = "done"
    /\ st_messages = <<message>>
    /\ raised = "none"
    /\ all_salon_data = <<>>
    /\ merged_data = NoFrame
    /\ fig = NoFigure

\* C12: if no source succeeds (no file exists, or every selected source
\* yields no usable data), the result of the load is empty and is treated
\* as "no data": a notice is shown and no exception propagates; a load that
\* failed returns the empty table.
C12_NoSourceIsNoData ==
    /\ (pc # "start" /\ NoFileExists) => OnlyNotice(NO_MTD_FILES)
    /\ (YearsLoaded /\ NoSourceUsable) => OnlyNotice(NO_DATA_FOR_MONTH)
    /\ \A y \in SeqRange(selected_years) :
          load_mtd_salon_data(mtd_files[y]).exc # "none"
              => load_mtd_salon_data(mtd_files[y]).data = EmptyDataFrame

\* Two years were selected, the load of one failed and the other lacks the
\* selected month: the tab showed the no-data warning.
C12_Witness ==
    /\ pc = "done"
    /\ Len(selected_years) = 2
    /\ NoSourceUsable
    /\ \E y \in SeqRange(selected_years) :
          load_mtd_salon_data(mtd_files[y]).exc = "KeyError"
    /\ \E y \in SeqRange(selected_years) :
          load_mtd_salon_data(mtd_files[y]).exc = "none"
    /\ st_messages = <<NO_DATA_FOR_MONTH>>

-----------------------------------------------------------------------------
(* Claims about the merged salon table and its summary, under SpecTab5.    *)

\* The growth text that belongs beside the k-th total of the summary: none
\* for the first year, else the growth from the preceding selected year.
ExpectedDelta(k) ==
    IF k = 1 THEN NoDelta
    ELSE format_percent(
             growth_percent(Float(total_of(totals, sorted_years(selected_years)[k])),
                            Float(total_of(totals, sorted_years(selected_years)[k - 1]))),
             2)

\* C28: in the multi-year summary statistics, for every set of selected
\* years and every combination of per-year totals (a total of 0 included),
\* the growth shown beside a year's total is the growth from the
\* chronologically preceding selected year, the first year shows no growth,
\* and computing the display never indexes outside the growth results.
C28_SummaryGrowth ==
    /\ raised # "IndexError"
    /\ \A k \in 1..Len(metrics) :
          /\ metrics[k].label = sorted_years(selected_years)[k]
          /\ (k = 1 \/ total_of(totals, sorted_years(selected_years)[k - 1]) > 0)
                => metrics[k].delta = ExpectedDelta(k)

\* The part of C28 that the code keeps: a summary that was shown in full
\* shows beside every total the growth from the preceding selected year.
C28_ShownSummaryAligned ==
    pc = "summarized" =>
        /\ Len(metrics) = Len(selected_years)
        /\ \A k \in 1..Len(metrics) : metrics[k].delta = ExpectedDelta(k)

\* The table of a loaded year
LoadedData(y) ==
    all_salon_data[CHOOSE e \in 1..Len(all_salon_data) : all_salon_data[e].year = y].data

\* The sum of the values of the rows with the given indexes, a missing
\* value adding nothing.
RECURSIVE ValueSum(_, _)
ValueSum(data, S) ==
    IF S = {} THEN 0
    ELSE LET k == CHOOSE i \in S : TRUE
         IN  (IF isna(data[k].value) THEN 0 ELSE data[k].value.val)
                 + ValueSum(data, S \ {k})

\* The sum of a salon's values in the source of year y
SalonSourceSum(y, salon) ==
    ValueSum(LoadedData(y), {k \in 1..Len(LoadedData(y)) : LoadedData(y)[k].SALONS = salon})

\* The sum of all values of the source of year y
SourceTotal(y) == ValueSum(LoadedData(y), 1..Len(LoadedData(y)))

\* A salon name occurs in two rows of the table of a loaded year.
RepeatedSalon ==
    \E e \in 1..Len(all_salon_data) :
        \E i, j \in 1..Len(all_salon_data[e].data) :
            i # j /\ all_salon_data[e].data[i].SALONS = all_salon_data[e].data[j].SALONS

\* Every salon has one row; its value in a year's column is the sum of its
\* values in that year's source; the totals are the sums of the sources.
UniqueKeySummed ==
    /\ \A i, j \in 1..Len(merged_data.rows) :
          merged_data.rows[i].SALONS = merged_data.rows[j].SALONS => i = j
    /\ \A k \in 1..Len(merged_data.rows) : \A c \in 1..Len(merged_data.columns) :
          merged_data.rows[k].vals[c].val =
              SalonSourceSum(merged_data.columns[c], merged_data.rows[k].SALONS)
    /\ \A t \in 1..Len(totals) : totals[t].total = SourceTotal(totals[t].year)

\* C24: in the multi-year salon table for a selected month the key is
\* unique and duplicates are summed: every salon appears in exactly one
\* row, its value in a year's column is the sum of the salon's values in
\* that year's source, also when a salon name occurs in more than one row
\* of a source, and each per-year total of the summary is the sum of the
\* source's values for the month.
C24_UniqueKeySummed == AfterMerge => UniqueKeySummed

\* The part of C24 that the code keeps: the table and the totals of sources
\* in which no salon name is repeated.
C24_WithoutRepeats == (AfterMerge /\ ~RepeatedSalon) => UniqueKeySummed

\* The source of year y holds a parsed value for the salon.
HasSourceValue(y, salon) ==
    \E k \in 1..Len(LoadedData(y)) :
        LoadedData(y)[k].SALONS = salon /\ ~isna(LoadedData(y)[k].value)

\* C23: the pipeline never turns missing into zero silently: in the merged
\* multi-year salon table, a salon that is absent from a year's source, or
\* whose cell for the selected month could not be parsed, keeps a missing
\* value for that year, distinguishable from a genuine sales value of 0.
C23_MissingStaysMissing ==
    AfterMerge =>
        \A k \in 1..Len(merged_data.rows) : \A c \in 1..Len(merged_data.columns) :
            ~HasSourceValue(merged_data.columns[c], merged_data.rows[k].SALONS)
                => isna(merged_data.rows[k].vals[c])

\* What the code does instead: no cell of the merged table is missing.
C23_EveryGapIsZero ==
    AfterMerge =>
        \A k \in 1..Len(merged_data.rows) : \A c \in 1..Len(merged_data.columns) :
            /\ ~isna(merged_data.rows[k].vals[c])
            /\ ~HasSourceValue(merged_data.columns[c], merged_data.rows[k].SALONS)
                  => merged_data.rows[k].vals[c] = Num(0)

\* The pairs (previous year, year) of the selected years in chronological
\* order: the pairs that the summary statistics compare.
ChronologicalPairs ==
    {<<sorted_years(selected_years)[i], sorted_years(selected_years)[i + 1]>> :
        i \in 1..(Len(selected_years) - 1)}

\* The pairs that the growth columns of the salon table compare
GrowthColumnPairs ==
    {<<growth_cols[c].prev, growth_cols[c].curr>> : c \in 1..Len(growth_cols)}

\* C29: in the multi-year salon table and chart, every growth column and
\* annotation compares a year with the chronologically preceding selected
\* year, whatever the order in which the years were selected; the compared
\* pairs are those of the summary statistics for the same selection.
C29_ChronologicalPairs ==
    /\ pc \in {"tabled", "summarized"} => GrowthColumnPairs = ChronologicalPairs
    /\ pc \in {"charted", "tabled", "summarized"} =>
          SeqRange(fig.annotations) =
              SeqRange(growth_annotations(head(merged_data, TOP_SALONS),
                                          sorted_years(selected_years), 1))

\* The part of C29 that the code keeps: the years selected in chronological
\* order.
C29_WhenSelectedInOrder ==
    selected_years = sorted_years(selected_years) => C29_ChronologicalPairs

-----------------------------------------------------------------------------
(* Claims about the aggregation and growth views, verified under SpecDash. *)

Tab1Done == view = "done" /\ tab1 # NoTab1
Tab2Done == view = "done" /\ tab2 # NoTab2
Tab4Done == view = "done" /\ tab4 # NoTab4

\* Every row of a table of ratios with a zero denominator holds the ratio 0.
ZeroWhenNoTransactions(rows) ==
    \A k \in 1..Len(rows) :
        rows[k]["Transaction_Count"] = 0 => rows[k]["Average_Transaction"] = Float(0)

\* C13: every derived ratio guards the division by zero: the average bill
\* value (total sales / total bills) and the average transaction value
\* (Total_Sales / Transaction_Count per service type and per center) are 0,
\* not NaN, infinity or an error, whenever the denominator is 0.
C13_RatiosGuardZero ==
    /\ (Tab1Done /\ tab1.total_bills = 0) =>
           tab1.avg_bill_value = Float(0) /\ tab1.avg_bill_text = <<RUPEE, "0">>
    /\ ZeroWhenNoTransactions(tab3.category_details)
    /\ ZeroWhenNoTransactions(tab3.center_sales)
    /\ dash_raised # "OverflowError"

\* The part of C13 that the code keeps: the average bill value is 0 when no
\* bill was counted.
C13_AverageBillGuarded ==
    (Tab1Done /\ tab1.total_bills = 0) =>
        tab1.avg_bill_value = Float(0) /\ tab1.avg_bill_text = <<RUPEE, "0">>

\* The sum of a column over the rows with the given indexes.
RECURSIVE IndexSum(_, _, _)
IndexSum(rows, S, col) ==
    IF S = {} THEN 0
    ELSE LET k == CHOOSE i \in S : TRUE
         IN  rows[k][col] + IndexSum(rows, S \ {k}, col)

\* A grouped table holds one row per outlet of the rows, with the
\* arithmetic sum over all rows of the outlet.
SumsPerOutlet(grouped, rows) ==
    /\ \A o \in unique(rows, "SALON_NAMES") :
          \E g \in 1..Len(grouped) :
              /\ grouped[g]["SALON_NAMES"] = o
              /\ grouped[g]["MTD_SALES"] =
                     IndexSum(rows, {k \in 1..Len(rows) : rows[k]["SALON_NAMES"] = o},
                              "MTD_SALES")
    /\ Len(grouped) = Cardinality(unique(rows, "SALON_NAMES"))
    /\ IndexSum(grouped, 1..Len(grouped), "MTD_SALES")
           = IndexSum(rows, 1..Len(rows), "MTD_SALES")

\* C14: summing sales grouped by outlet over a table that holds several
\* rows with the same (outlet, year, month) gives, for each outlet, the
\* arithmetic sum over all of its rows: no duplicate row is dropped or
\* overwritten, and the grouped totals add up to the sum of the column.
C14_GroupedSums ==
    /\ Tab1Done => SumsPerOutlet(tab1.salon_sales, tab1.filtered_data)
    /\ Tab4Done =>
          /\ SumsPerOutlet(tab4.base_by_salon,
                           where_equal(sales_data, "Year", tab4.base_year))
          /\ SumsPerOutlet(tab4.compare_by_salon,
                           where_equal(sales_data, "Year", tab4.compare_year))

SameOutletMonth(a, b) ==
    a["SALON_NAMES"] = b["SALON_NAMES"] /\ a["Year"] = b["Year"] /\ a["Month"] = b["Month"]

\* The filtered table of tab 1 holds an outlet and month twice, once with
\* the same amount and once with another, and the outlet's total is shown.
C14_Witness ==
    /\ Tab1Done
    /\ Len(tab1.filtered_data) = 3
    /\ \A i, j \in 1..3 : SameOutletMonth(tab1.filtered_data[i], tab1.filtered_data[j])
    /\ \E i, j \in 1..3 :
          /\ i # j
          /\ tab1.filtered_data[i]["MTD_SALES"] = tab1.filtered_data[j]["MTD_SALES"]
    /\ \E i, j \in 1..3 :
          tab1.filtered_data[i]["MTD_SALES"] # tab1.filtered_data[j]["MTD_SALES"]
    /\ Len(tab1.salon_sales) = 1

\* The calendar position of a month label that is a month name, full or
\* abbreviated; 0 for any other label.
CalendarIndex(label) ==
    LET name == replace_value(month_mapping, label) IN
    IF \E c \in 1..Len(month_order) : month_order[c] = name
    THEN CHOOSE c \in 1..Len(month_order) : month_order[c] = name
    ELSE 0

\* The rows of a monthly view are in calendar order.
InCalendarOrder(rows) ==
    \A i, j \in 1..Len(rows) :
        (/\ CalendarIndex(rows[i]["Month"]) > 0
         /\ CalendarIndex(rows[j]["Month"]) > 0
         /\ CalendarIndex(rows[i]["Month"]) < CalendarIndex(rows[j]["Month"]))
            => i < j

\* C15: monthly views are in calendar order: for every table whose month
\* labels are month names (full, or three-letter abbreviations), whenever
\* month A precedes month B in the calendar, A's row precedes B's row in
\* the monthly sales trend and in the month-by-month growth table.
C15_CalendarOrder ==
    /\ Tab1Done => InCalendarOrder(tab1.monthly_sales)
    /\ Tab4Done => InCalendarOrder(tab4.monthly_growth)

\* The part of C15 that the code keeps: rows labelled with full month names
\* are in calendar order among themselves.
C15_FullNamesInOrder ==
    /\ Tab1Done => InCalendarOrder(categorized(tab1.monthly_sales))
    /\ Tab4Done => InCalendarOrder(categorized(tab4.monthly_growth))

-----------------------------------------------------------------------------
(* Claims about growth between periods: the per-outlet growth of tab 4     *)
(* (SpecDash), the growth columns of the multi-year salon table (SpecTab5),*)
(* the year-on-year columns of tab 2 and the center growth of tab 3.       *)

\* The outlets of a table
Outlets(rows) == unique(rows, "SALON_NAMES")

\* The growth rows of tab 4 are rows of outlets with sales rows in both of
\* the compared years.
C16_InnerJoinOnly ==
    Tab4Done =>
        /\ Outlets(tab4.growth_data) =
               Outlets(where_equal(sales_data, "Year", tab4.base_year))
                   \cap Outlets(where_equal(sales_data, "Year", tab4.compare_year))
        /\ tab4.total_shown =>
               Outlets(tab4.salon_growth) =
                   Outlets(where_equal(sales_data, "Year", Y2023))
                       \cap Outlets(where_equal(sales_data, "Year", Y2025))

\* A growth column of the salon table is empty in the rows of the salons
\* that one of its two years has no row for.
BlankUnlessInBoth(col) ==
    \A k \in 1..Len(merged_data.rows) :
        merged_data.rows[k].SALONS \notin
                (SourceSalons(col.prev) \cap SourceSalons(col.curr))
            => col.shown[k] = <<>>

\* C16: growth is reported only for outlets present in both periods: in the
\* year-to-year comparison, in the 2023-to-2025 growth and in the growth
\* columns of the multi-year salon table, an outlet with data in only one
\* of the two compared periods gets no growth value.
C16_GrowthOnlyForBoth ==
    /\ C16_InnerJoinOnly
    /\ \A c \in 1..Len(growth_cols) : BlankUnlessInBoth(growth_cols[c])

\* The per-outlet growth rows that tab 4 shows: the comparison of the two
\* selected years and the growth from 2023 to 2025.
JoinedGrowthRows == tab4.growth_data \o tab4.salon_growth

\* The growth of one joined row follows the formulas.
GrowthFormulas(row) ==
    LET base == row["MTD_SALES_base"]
        compare == row["MTD_SALES_compare"]
        percent == row["Growth_Percent"]
    IN  /\ row["Growth_Amount"] = compare - base
        /\ percent = Fin((compare - base) * 100, base)
        /\ (percent = Float(0)) <=> (compare = base)
        /\ (percent = Float(-100)) <=> (compare = 0)
        /\ Sign(percent.num) = Sign(row["Growth_Amount"])

\* C17: for every joined growth row with base > 0, the absolute growth is
\* compare - base and the percentage growth is (compare / base - 1) * 100;
\* hence the percentage is 0 exactly when compare = base, -100 exactly when
\* compare = 0, and has the sign of the absolute growth.
C17_GrowthFormulas ==
    Tab4Done =>
        \A k \in 1..Len(JoinedGrowthRows) :
            JoinedGrowthRows[k]["MTD_SALES_base"] > 0
                => GrowthFormulas(JoinedGrowthRows[k])

\* The comparison of two years holds an outlet that sold in the base year
\* and sold nothing in the comparison year: its growth is -100 percent.
C17_Witness ==
    /\ Tab4Done
    /\ \E k \in 1..Len(tab4.growth_data) :
          /\ tab4.growth_data[k]["MTD_SALES_base"] > 0
          /\ tab4.growth_data[k]["MTD_SALES_compare"] = 0
          /\ tab4.growth_data[k]["Growth_Percent"] = Float(-100)
          /\ tab4.display_growth[k].Growth_Percent =
                 <<"-", "1", "0", "0", ".", "0", "0", "%">>

\* The sales of a center in the two years that a bar of the center growth
\* chart of tab 3 compares.
BarSales(bar) ==
    LET p == CHOOSE p \in SeqRange(tab3.center_pivot) : p.Center_Name = bar.Center_Name
        i == CHOOSE i \in 1..Len(tab3.years) : tab3.years[i] = bar.From
    IN  [prev |-> p.sales[i], current |-> p.sales[i + 1]]

\* C18: growth with base = 0 and compare > 0 is reported as a distinct
\* "infinite growth" marker in every growth output: it is never a numeric
\* percentage and never a raw infinite float that is passed on to
\* formatting or to a chart.
C18_InfiniteGrowthMarked ==
    /\ Tab4Done =>
          \A k \in 1..Len(tab4.growth_data) :
              (/\ tab4.growth_data[k]["MTD_SALES_base"] = 0
               /\ tab4.growth_data[k]["MTD_SALES_compare"] > 0)
                  => /\ tab4.growth_data[k]["Growth_Percent"].kind # "finite"
                     /\ tab4.growth_bars[k].y # INF
                     /\ tab4.display_growth[k].Growth_Percent # format_percent(INF, 2)
    /\ \A b \in SeqRange(tab3.growth_chart) :
          (BarSales(b).prev = Float(0) /\ float_gt0(BarSales(b).current))
              => b.Growth # INF

\* The part of C18 that the code keeps: the table of center growth of tab 3
\* shows "N/A" for an infinite growth.
C18_CenterTableMarked ==
    \A c \in 1..Len(tab3.growth_df) : \A i \in 1..Len(tab3.growth_df[c].growth) :
        tab3.growth_df[c].growth[i].value = INF
            => tab3.display_growth[c].growth[i] = NOT_AVAILABLE

\* C19: growth with base = 0 and compare = 0 is reported as the percentage
\* 0 in every growth output, not as NaN and not as the infinite marker.
C19_ZeroToZeroIsZero ==
    /\ Tab4Done =>
          \A k \in 1..Len(tab4.growth_data) :
              (/\ tab4.growth_data[k]["MTD_SALES_base"] = 0
               /\ tab4.growth_data[k]["MTD_SALES_compare"] = 0)
                  => /\ tab4.growth_data[k]["Growth_Percent"] = Float(0)
                     /\ tab4.display_growth[k].Growth_Percent = format_percent(Float(0), 2)
    /\ \A b \in SeqRange(tab3.growth_chart) :
          (BarSales(b).prev = Float(0) /\ BarSales(b).current = Float(0))
              => b.Growth = Float(0)

\* The part of C19 that the code keeps: in the multi-year salon table a
\* salon with 0 in both years of a growth column has the growth 0.
C19_SalonTableZero ==
    \A c \in 1..Len(growth_cols) : \A k \in 1..Len(merged_data.rows) :
        (/\ merged_data.rows[k].vals[YearColumn(merged_data, growth_cols[c].prev)].val = 0
         /\ merged_data.rows[k].vals[YearColumn(merged_data, growth_cols[c].curr)].val = 0)
            => growth_cols[c].values[k] = Float(0)

\* The years in which the outlet selected in tab 2 has rows, ascending.
OutletYears ==
    sorted_unique(where_equal(sales_data, "SALON_NAMES", tab2.selected_outlet), "Year")

\* The center analysis of tab 3 has run.
Tab3Analysed == tab3.years # <<>>

\* The i-th of the growth columns compares the (i+1)-th year with the i-th.
ConsecutivePairs(cols, years) ==
    /\ Len(cols) = Len(years) - 1
    /\ \A i \in 1..Len(cols) : cols[i].From = years[i] /\ cols[i].To = years[i + 1]

\* C20: chained growth over N periods gives exactly N-1 growth columns, one
\* per pair of consecutive periods, the i-th comparing period i+1 with
\* period i, for every N >= 2; a single period gives no growth column.
C20_ChainedGrowthColumns ==
    /\ Tab2Done =>
          /\ ConsecutivePairs(tab2.growth_cols, OutletYears)
          /\ \A i \in 1..Len(tab2.growth_cols) : \A m \in 1..Len(tab2.pivot_data) :
                tab2.growth_cols[i].values[m] =
                    format_percent(growth_percent(tab2.pivot_data[m].sales[i + 1],
                                                  tab2.pivot_data[m].sales[i]), 2)
    /\ Tab3Analysed =>
          LET years == sorted_unique(service_data, "Year") IN
          /\ Len(years) = 1 => tab3.growth_df = <<>> /\ tab3.growth_chart = <<>>
          /\ Len(years) >= 2 =>
                /\ Len(tab3.growth_df) = Cardinality(unique(service_data, "Center_Name"))
                /\ Len(tab3.growth_chart) = Len(tab3.growth_df) * (Len(years) - 1)
          /\ \A g \in 1..Len(tab3.growth_df) :
                /\ ConsecutivePairs(tab3.growth_df[g].growth, years)
                /\ \A p \in 1..Len(tab3.center_pivot) :
                      tab3.center_pivot[p].Center_Name = tab3.growth_df[g].Center_Name
                          => \A i \in 1..(Len(years) - 1) :
                                tab3.growth_df[g].growth[i].value =
                                    center_growth_pct(tab3.center_pivot[p].sales[i],
                                                      tab3.center_pivot[p].sales[i + 1])

\* Tab 2 showed an outlet with rows in three years: two growth columns,
\* 2023 to 2024 and 2024 to 2025.
C20_Witness ==
    /\ Tab2Done
    /\ OutletYears = <<Y2023, Y2024, Y2025>>
    /\ Len(tab2.growth_cols) = 2
    /\ tab2.growth_cols[1].From = Y2023 /\ tab2.growth_cols[1].To = Y2024
    /\ tab2.growth_cols[2].From = Y2024 /\ tab2.growth_cols[2].To = Y2025

-----------------------------------------------------------------------------
(* Claims about the category breakdown of tab 3, verified under            *)
(* SpecBreakdown.                                                          *)

BreakdownShown == breakdown # NoBreakdown

Categories(rows) == unique(rows, "Item_Category")

\* Total_Sales of a category over all its rows
CategorySales(rows, category) ==
    series_sum(where_equal(rows, "Item_Category", category), "Total_Sales")

SortedDescending(rows) ==
    \A i, j \in 1..Len(rows) : i < j => rows[i]["Total_Sales"] >= rows[j]["Total_Sales"]

UnitTotalsOverAll(b) ==
    \A k \in 1..Len(b.business_unit_sales) :
        b.business_unit_sales[k]["Total_Sales"] =
            series_sum(where_equal(b.breakdown_data, "Business_Unit",
                                   b.business_unit_sales[k]["Business_Unit"]),
                       "Total_Sales")

\* C21: the top categories of a breakdown with n categories are exactly
\* min(15, n) rows, one per category, in descending order of total sales,
\* each at least as large as every omitted category, and the totals per
\* business unit sum over all the categories.
C21_TopCategories ==
    BreakdownShown =>
        LET top == breakdown.top_categories
            all == Categories(breakdown.breakdown_data)
            n == Cardinality(all)
        IN /\ Len(top) = (IF n < TOP_CATEGORIES THEN n ELSE TOP_CATEGORIES)
           /\ \A i, j \in 1..Len(top) :
                 i # j => top[i]["Item_Category"] # top[j]["Item_Category"]
           /\ SortedDescending(top)
           /\ \A i \in 1..Len(top) : \A c \in all \ Categories(top) :
                 top[i]["Total_Sales"] >= CategorySales(breakdown.breakdown_data, c)
           /\ UnitTotalsOverAll(breakdown)

\* What the code keeps: the top categories are the first min(15, r) of the
\* r rows of the breakdown in descending order of sales, every omitted row
\* is no larger than a row shown, and the totals per business unit sum over
\* all the rows.
C21_TopRows ==
    BreakdownShown =>
        LET top == breakdown.top_categories
            rows == breakdown.breakdown_data
            r == Len(rows)
        IN /\ Len(top) = (IF r < TOP_CATEGORIES THEN r ELSE TOP_CATEGORIES)
           /\ SortedDescending(top)
           /\ \E sorted \in sort_rows_descending(rows, "Total_Sales") :
                 /\ \A k \in 1..Len(top) :
                       top[k]["Item_Category"] = sorted[k]["Item_Category"]
                       /\ top[k]["Year"] = sorted[k]["Year"]
                 /\ \A i \in 1..Len(top) : \A j \in (Len(top) + 1)..r :
                       top[i]["Total_Sales"] >= sorted[j]["Total_Sales"]
           /\ UnitTotalsOverAll(breakdown)

\* A breakdown of more than 15 rows, truncated
C21_Truncated ==
    BreakdownShown /\ Len(breakdown.breakdown_data) > TOP_CATEGORIES

\* All the years of a file with two years, a category in two rows
C21_CategoryInTwoRows ==
    /\ BreakdownShown
    /\ breakdown.selected_breakdown_year = TOTAL_OPTION
    /\ Cardinality(Categories(breakdown.breakdown_data)) < Len(breakdown.breakdown_data)

-----------------------------------------------------------------------------
(* Claims about the load of the dashboard and the views of a session,      *)
(* verified under SpecSession.                                             *)

\* C22: the loaded table is cached by the identity and the modification
\* marker of its source: a load made after the marker has changed returns
\* the data of the changed source, and a load of an unchanged source
\* returns the one cached value.  So every load returns what the source
\* holds when the load is made.
C22_LoadFollowsSource ==
    script_load.loaded => script_load.returned = script_load.stored

\* What the code keeps: the cache holds one value, made by the first load,
\* and every load of the session returns it, whatever the store holds.
C22_SingleCachedValue ==
    script_load.loaded =>
        /\ load_cache.filled
        /\ script_load.returned = load_cache.sales_data
        /\ sales_data = load_cache.sales_data

\* The entry of the cache is never replaced.
C22_EntryKept == [][load_cache.filled => load_cache' = load_cache]_vars

\* A load from the cache after the store was modified
C22_LoadAfterChange ==
    script_load.loaded /\ script_load.cached /\ script_load.modified > 0

\* The table the last run of the script loaded
LoadedTable == script_load.returned

\* The sum of a column over the rows of a table that satisfy a condition
SumWhere(rows, col, Cond(_)) ==
    series_sum(SelectSeq(rows, Cond), col)

-----------------------------------------------------------------------------
(* Claims about the growth computations side by side, under SpecGrowth.    *)

\* C26: on every pair of sales that are not negative the growth of the
\* outlets, of the centers, of the annotations and of the salon growth
\* columns is the same, and for a base of 0 it is 0 percent when the
\* compare period is 0 too and infinite otherwise.
C26_GrowthAgrees ==
    growth_out.compared =>
        /\ growth_out.center = growth_out.outlet
        /\ growth_out.annotation = growth_out.outlet
        /\ growth_out.salon_column = growth_out.outlet
        /\ growth_pair.base = 0 =>
              growth_out.outlet =
                  Growth(IF growth_pair.compare = 0 THEN Float(0) ELSE INF)

\* What the code keeps: the four agree when the base is positive, and for
\* a base of 0 the outlets get nan or inf, the centers inf, the salon
\* columns 0 and the annotations no growth at all.
C26_AgreesOnPositiveBase ==
    growth_out.compared =>
        IF growth_pair.base > 0
        THEN /\ growth_out.center = growth_out.outlet
             /\ growth_out.annotation = growth_out.outlet
             /\ growth_out.salon_column = growth_out.outlet
        ELSE /\ growth_out.outlet =
                    Growth(IF growth_pair.compare = 0 THEN NAN ELSE INF)
             /\ growth_out.center = Growth(INF)
             /\ growth_out.salon_column = Growth(Float(0))
             /\ growth_out.annotation = NoGrowth

\* The growth from nothing to nothing was computed.
C26_ZeroToZero ==
    growth_out.compared /\ growth_pair.base = 0 /\ growth_pair.compare = 0

-----------------------------------------------------------------------------
(* Claims about the event analysis, verified under SpecEvents.             *)

\* date - days <= the date of ts <= date + days, the ends included
WithinDays(ts, date, days) ==
    /\ DayNumber(ts.date) >= DayNumber(date) - days
    /\ DayNumber(ts.date) <= DayNumber(date) + days

EventDate(name) == (CHOOSE e \in SeqRange(important_dates) : e.event = name).date

\* C30: for every event of the list the sales rows analysed are exactly
\* the rows of the selected center whose sale date is from 7 days before to
\* 7 days after the date of the event, the ends included, and the leaves
\* rows analysed are the rows of the leaves in the same window.
C30_EventWindow ==
    event_out.shown =>
        LET date == EventDate(event_out.selected_event) IN
        /\ event_out.event_sales =
               SelectSeq(event_in.sales_data, LAMBDA r :
                   /\ r["Center_Name"] = event_out.selected_center
                   /\ WithinDays(r["Sale_Date"], date, EVENT_DAYS))
        /\ event_in.app = "new.py" =>
               event_out.event_leaves =
                   SelectSeq(event_in.leaves_data, LAMBDA r :
                       WithinDays(r["Date"], date, EVENT_DAYS))

\* What the code keeps: the sales rows analysed are the rows of 2024 of
\* the selected center from midnight 7 days before the event to midnight 7
\* days after it, and the leaves rows are the rows of any year between the
\* same two midnights.
C30_WindowOfEventYear ==
    event_out.shown =>
        LET event_date == Timestamp(EventDate(event_out.selected_event), 0) IN
        /\ event_out.event_sales =
               SelectSeq(event_in.sales_data, LAMBDA r :
                   /\ r["Center_Name"] = event_out.selected_center
                   /\ r["Sale_Date"].date.year = EVENT_YEAR
                   /\ in_event_window(r["Sale_Date"], event_date))
        /\ event_in.app = "new.py" =>
               event_out.event_leaves =
                   SelectSeq(event_in.leaves_data, LAMBDA r :
                       in_event_window(r["Date"], event_date))

\* New Year is analysed on sales of the selected center made in the
\* last week of 2023.
C30_SalesBeforeNewYear ==
    /\ event_out.shown
    /\ event_out.selected_event = "New Year"
    /\ \E k \in 1..Len(event_in.sales_data) :
          /\ event_in.sales_data[k]["Sale_Date"].date.year = 2023
          /\ event_in.sales_data[k]["Center_Name"] = event_out.selected_center

-----------------------------------------------------------------------------
(* Specifications.  Each starts one component on its inputs and leaves the *)
(* variables of the other components idle.                                 *)

IdleFmt == amount = Num(0) /\ format_type = "full" /\ formatted = NotCalled

IdleNorm == raw_table = NoTable /\ loaded = NotLoaded

IdleMonth == month_labels = <<>> /\ month_normal = NotNormalized

IdleTab5Out ==
    /\ fig = NoFigure
    /\ display_data = NoDisplay
    /\ growth_cols = <<>>
    /\ totals = <<>>
    /\ growth_stats = <<>>
    /\ metrics = <<>>
    /\ raised = "none"

IdleTab5 ==
    /\ mtd_files = [y \in SeqRange(mtd_years) |-> MISSING]
    /\ available_files = <<>>
    /\ selected_years = <<>>
    /\ selected_month = JANUARY
    /\ all_salon_data = <<>>
    /\ merged_data = NoFrame
    /\ st_messages = <<>>
    /\ pc = "idle"
    /\ IdleTab5Out

IdleDash ==
    /\ sales_data = <<>>
    /\ service_data = <<>>
    /\ view = "idle"
    /\ tab1 = NoTab1
    /\ tab2 = NoTab2
    /\ tab3 = NoTab3
    /\ tab4 = NoTab4
    /\ dash_raised = "none"

IdleBreakdown == category_data = <<>> /\ breakdown = NoBreakdown

IdleStore == StoreWithout(<<>>, 0)

IdleCache == s3_store = IdleStore /\ load_cache = NoEntry /\ script_load = NoLoad

IdleGrowth == growth_pair = [base |-> 0, compare |-> 0] /\ growth_out = NotCompared

IdleEvents ==
    /\ event_in = [app |-> "new.py", sales_data |-> <<>>, leaves_data |-> <<>>]
    /\ event_out = NoEventView

IdleAux == IdleBreakdown /\ IdleCache /\ IdleGrowth /\ IdleEvents

InitFmt ==
    /\ amount \in Amounts
    /\ format_type \in FormatTypes
    /\ formatted = NotCalled
    /\ IdleNorm /\ IdleMonth /\ IdleTab5 /\ IdleDash /\ IdleAux

NextFmt == Format

SpecFmt == InitFmt /\ [][NextFmt]_vars

InitNorm ==
    /\ raw_table \in RawTables
    /\ loaded = NotLoaded
    /\ IdleFmt /\ IdleMonth /\ IdleTab5 /\ IdleDash /\ IdleAux

NextNorm == LoadMtd

SpecNorm == InitNorm /\ [][NextNorm]_vars

InitMonth ==
    /\ month_labels \in UNION {[1..n -> MonthLabels] : n \in 1..MaxLabels}
    /\ month_normal = NotNormalized
    /\ IdleFmt /\ IdleNorm /\ IdleTab5 /\ IdleDash /\ IdleAux

NextMonth == NormalizeMonths

SpecMonth == InitMonth /\ [][NextMonth]_vars

\* The dataset directories: a file or none for every year; the file with the
\* repeated salon is the file of at most one year.
DatasetDirectories ==
    {f \in [SeqRange(mtd_years) -> SourceFiles] :
        Cardinality({y \in SeqRange(mtd_years) : f[y] = SRC_REPEATED}) <= 1}

InitTab5 ==
    /\ mtd_files \in DatasetDirectories
    /\ available_files = <<>>
    /\ selected_years = <<>>
    /\ selected_month = JANUARY
    /\ all_salon_data = <<>>
    /\ merged_data = NoFrame
    /\ st_messages = <<>>
    /\ pc = "start"
    /\ IdleTab5Out
    /\ IdleFmt /\ IdleNorm /\ IdleMonth /\ IdleDash /\ IdleAux

NextTab5 ==
    \/ ScanFiles \/ SelectFilters \/ LoadYears \/ MergeYears
    \/ DrawChart \/ AddGrowthColumns \/ SummaryStatistics

SpecTab5 == InitTab5 /\ [][NextTab5]_vars

InitDash ==
    /\ \/ sales_data \in SalesTables /\ service_data = <<>>
          /\ view \in {"tab1", "tab2", "tab4"}
       \/ sales_data = <<>> /\ service_data \in ServiceTables /\ view = "tab3"
    /\ tab1 = NoTab1
    /\ tab2 = NoTab2
    /\ tab3 = NoTab3
    /\ tab4 = NoTab4
    /\ dash_raised = "none"
    /\ IdleFmt /\ IdleNorm /\ IdleMonth /\ IdleTab5 /\ IdleAux

NextDash ==
    \/ Tab1Overview
    \/ Tab2Comparison
    \/ Tab3CategoryMetrics \/ Tab3CenterAnalysis
    \/ Tab4Growth

SpecDash == InitDash /\ [][NextDash]_vars

InitBreakdown ==
    /\ category_data \in CategoryFiles
    /\ breakdown = NoBreakdown
    /\ IdleFmt /\ IdleNorm /\ IdleMonth /\ IdleTab5 /\ IdleDash
    /\ IdleCache /\ IdleGrowth /\ IdleEvents

NextBreakdown == BreakdownCharts

SpecBreakdown == InitBreakdown /\ [][NextBreakdown]_vars

InitSession ==
    /\ s3_store \in {StoreWithout(RawProcessed, 0)}
                      \cup {StoreWith(t, RawProcessed, 0) : t \in SessionTables}
    /\ load_cache = NoEntry
    /\ script_load = NoLoad
    /\ IdleDash
    /\ IdleFmt /\ IdleNorm /\ IdleMonth /\ IdleTab5 /\ IdleBreakdown /\ IdleGrowth
    /\ IdleEvents

NextSession ==
    \/ ScriptRun
    \/ SourceChange
    \/ Tab1Overview
    \/ Tab2Comparison
    \/ Tab4Growth

SpecSession == InitSession /\ [][NextSession]_vars

InitGrowth ==
    /\ growth_pair \in [base : 0..MaxGrowthSales, compare : 0..MaxGrowthSales]
    /\ growth_out = NotCompared
    /\ IdleFmt /\ IdleNorm /\ IdleMonth /\ IdleTab5 /\ IdleDash
    /\ IdleBreakdown /\ IdleCache /\ IdleEvents

NextGrowth == CompareGrowth

SpecGrowth == InitGrowth /\ [][NextGrowth]_vars

InitEvents ==
    /\ \/ event_in \in [app : {"new.py"},
                        sales_data : UploadsOf(UploadedSalesRows, MaxEventRows),
                        leaves_data : UploadsOf(UploadedLeavesRows, MaxLeavesRows)]
       \/ event_in \in [app : {"service.py"},
                        sales_data : UploadsOf(UploadedSalesRows, MaxEventRows),
                        leaves_data : {<<>>}]
    /\ event_out = NoEventView
    /\ IdleFmt /\ IdleNorm /\ IdleMonth /\ IdleTab5 /\ IdleDash
    /\ IdleBreakdown /\ IdleCache /\ IdleGrowth

NextEvents == Tab6EventAnalysis \/ ServiceEventAnalysis

SpecEvents == InitEvents /\ [][NextEvents]_vars

====
